---- MODULE Spec2Model ----
(***************************************************************************)
(* simple-monitor: the monitor sampling loop (simpmon/monitor.py) and the  *)
(* alarm tracker (simpmon/alarm.py).                                       *)
(*                                                                         *)
(* Python's Optional[T] is a sequence of length at most one: None is <<>>, *)
(* a present value x is <<x>>.  A dict is a sequence of its items in       *)
(* insertion order, as Python iterates it.                                 *)
(***************************************************************************)
EXTENDS Integers, Sequences, FiniteSets, TLC

\* ------------------------------------------------------------------ bounds
\* Sample-loop iterations explored when readings are free.
MaxTicks == 2
\* Sample-loop iterations explored beyond MAX_DATAPOINTS in the long run.
MaxOver == 2
\* Last instant of the wall clock.
MaxTime == 2

\* Calls of get_datapoint explored for a sampler.
MaxCalls == 3
\* Clock units explored for the disk write rate sampler.
MaxElapsed == 5

\* ------------------------------------------------------- program constants
MAX_DATAPOINTS == 100

None == <<>>
Some(x) == <<x>>

\* Readings a sampler can deliver (get_datapoint is abstract).
Values == {79, 80, 81, 82}

\* ------------------------------------------------------------------- rules
\* config.MonitorAlarmConfig
MonitorAlarmConfig(name, count, value, exceedance, reminder_age) ==
    [name |-> name, count |-> count, value |-> value,
     exceedance |-> exceedance, reminder_age |-> reminder_age]

\* config.MonitorConfig (one of the *MonitorConfig variants) with the unit
\* its Monitor subclass reports.
MonitorConfig(name, title, unit, alarms) ==
    [name |-> name, title |-> title, unit |-> unit, alarms |-> alarms]

VARIABLES
    _monitors,        \* MonitorCollection._monitors: the ids, in dict order
    configuration,    \* id -> MonitorConfig the monitor was built from
    feed,             \* id -> cyclic sequence of the sets of readings the
                      \*       sampled resource can show at successive ticks
    budget,           \* sample-loop iterations still explored
    datapoints,       \* id -> Monitor.datapoints (deque of Point)
    active_alarm,     \* id -> Monitor.active_alarm
    status,           \* id -> Monitor.status (the published MonitorStatus)
    sampled,          \* id -> every Point the monitor ever sampled, in order
    mc_pc,            \* position of the thread running MonitorCollection.run
    mc_i,             \* index in _monitors of the monitor being run
    clock,            \* datetime.datetime.now()
    al_pc,            \* position of the thread running AlarmManager.run
    now,              \* Alarmer.run: local now (None outside the call)
    statuses,         \* Alarmer.run: local statuses, as far as read
    _current_alarms,  \* Alarmer._current_alarms (dict, insertion order)
    events,           \* notifier calls made by the current tracker pass
    must_exit,        \* main: the threading.Event, TRUE when set
    faults,           \* the operations that fail when they are attempted
    signals,          \* number of exit signals handled so far
    web_pc,           \* position of the thread running MonitorWebUIServer.run
    main_pc,          \* position of the main thread
    _last_ping,       \* PingMonitor._last_ping
    _ping_future,     \* PingMonitor._ping_future
    last_upgradeable, \* PackageManagerMonitor.last_upgradeable
    _get_upgradeable_future,  \* PackageManagerMonitor's handle
    delay,            \* PackageManagerMonitor.delay
    pool,             \* ThreadManager._thread_executor: the calls submitted
    get_pc,           \* position of the sample loop in a probe's tick
    warned_sensor_unavailable,  \* TemperatureMonitor's flag
    sensor_points,    \* the readings of the sensor psutil shows
    index,            \* TemperatureMonitor.index
    warnings,         \* number of warnings TemperatureMonitor has logged
    service,          \* the ActiveState the service manager reports
    divider,          \* DiskWriteRateMonitor.divider
    warned_io_counters_unavailable,  \* DiskWriteRateMonitor's flag
    last,             \* DiskWriteRateMonitor.last
    ticks,            \* datetime.datetime.now() in 1/Resolution seconds
    returned          \* sampler -> outcomes of its get_datapoint calls

collectionVars == <<_monitors, configuration, feed, budget, datapoints,
                    active_alarm, status, sampled, mc_pc, mc_i>>
trackerVars == <<al_pc, now, statuses, _current_alarms, events>>
inputVars == <<faults, signals>>
threadVars == <<must_exit, inputVars, web_pc, main_pc>>
probeVars == <<_last_ping, _ping_future, last_upgradeable,
               _get_upgradeable_future, delay, pool, get_pc>>
temperatureVars == <<warned_sensor_unavailable, sensor_points, index,
                     warnings>>
samplerVars == <<probeVars, temperatureVars, service, divider,
                 warned_io_counters_unavailable, last, ticks, returned>>

vars == <<collectionVars, clock, trackerVars, threadVars, samplerVars>>

Ids == {_monitors[k] : k \in DOMAIN _monitors}

\* ---------------------------------------------------------------- helpers
Last(s) == s[Len(s)]

\* The elements of the sequence s.
Range(s) == {s[k] : k \in DOMAIN s}

\* The outcome of a call: the value returned, as the fraction num / den, or
\* the exception raised.
Return(num, den) == [raised |-> "", num |-> num, den |-> den]
Raise(exception) == [raised |-> exception, num |-> 0, den |-> 1]

\* The sequences that list every element of the set S once.
Orders(S) ==
    {o \in [1..Cardinality(S) -> S] : \A a, b \in DOMAIN o : a # b => o[a] # o[b]}

\* sorted(..., key=lambda alarm: alarm.value, reverse=...): whether a sorts
\* strictly before b.
Before(a, b, reverse) ==
    IF reverse THEN a.value > b.value ELSE a.value < b.value

\* The sorted list s with x put in: after every element that does not sort
\* strictly after x (sorted is stable, with reverse=True too).
RECURSIVE InsertSorted(_, _, _)
InsertSorted(s, x, reverse) ==
    IF s = <<>> THEN <<x>>
    ELSE IF Before(x, Head(s), reverse) THEN <<x>> \o s
    ELSE <<Head(s)>> \o InsertSorted(Tail(s), x, reverse)

\* sorted(s, key=lambda alarm: alarm.value, reverse=reverse)
RECURSIVE Sorted(_, _)
Sorted(s, reverse) ==
    IF s = <<>> THEN <<>>
    ELSE InsertSorted(Sorted(SubSeq(s, 1, Len(s) - 1), reverse), Last(s),
                      reverse)

\* ----------------------------------------------------------------- Monitor
Point(x, y) == [x |-> x, y |-> y]

IsOver(alarm) == alarm.exceedance = "OVER"
IsUnder(alarm) == alarm.exceedance = "UNDER"

\* _over_alarms sorted without reverse=True.
_over_alarms_ascending(m) ==
    Sorted(SelectSeq(configuration[m].alarms, IsOver), FALSE)

\* Monitor.__init__: self._over_alarms, highest threshold first.
_over_alarms(m) ==
    Sorted(SelectSeq(configuration[m].alarms, IsOver), TRUE)

\* Monitor.__init__: self._under_alarms, lowest threshold first.
_under_alarms(m) ==
    Sorted(SelectSeq(configuration[m].alarms, IsUnder), FALSE)

\* _set_alarm_status comparing with >= and <=.
_set_alarm_status_nonstrict(dp, alarm) ==
    IF \E i \in 0..(alarm.count - 1) : i + 1 > Len(dp) THEN FALSE
    ELSE LET alarm_datapoints ==
                 {dp[Len(dp) - i].y : i \in 0..(alarm.count - 1)}
         IN  IF alarm.exceedance = "UNDER"
             THEN \A p \in alarm_datapoints : p <= alarm.value
             ELSE \A p \in alarm_datapoints : p >= alarm.value

\* _set_alarm_status that stops collecting at the start of the deque
\* instead of giving up on the IndexError.
_set_alarm_status_short(dp, alarm) ==
    LET alarm_datapoints ==
            {dp[Len(dp) - i].y :
                 i \in {j \in 0..(alarm.count - 1) : j + 1 <= Len(dp)}}
    IN  IF alarm.exceedance = "UNDER"
        THEN \A p \in alarm_datapoints : p < alarm.value
        ELSE \A p \in alarm_datapoints : p > alarm.value

\* _set_alarm_status that takes a set smaller than count, left by equal
\* readings, for insufficient data.
_set_alarm_status_distinct(dp, alarm) ==
    IF \E i \in 0..(alarm.count - 1) : i + 1 > Len(dp) THEN FALSE
    ELSE LET alarm_datapoints ==
                 {dp[Len(dp) - i].y : i \in 0..(alarm.count - 1)}
         IN  IF Cardinality(alarm_datapoints) < alarm.count THEN FALSE
             ELSE IF alarm.exceedance = "UNDER"
             THEN \A p \in alarm_datapoints : p < alarm.value
             ELSE \A p \in alarm_datapoints : p > alarm.value

\* _set_alarm_status that takes a count below 1 for insufficient data.
_set_alarm_status_positive(dp, alarm) ==
    IF alarm.count <= 0 THEN FALSE
    ELSE IF \E i \in 0..(alarm.count - 1) : i + 1 > Len(dp) THEN FALSE
    ELSE LET alarm_datapoints ==
                 {dp[Len(dp) - i].y : i \in 0..(alarm.count - 1)}
         IN  IF alarm.exceedance = "UNDER"
             THEN \A p \in alarm_datapoints : p < alarm.value
             ELSE \A p \in alarm_datapoints : p > alarm.value

\* Monitor._set_alarm_status over the deque dp: the y of dp[-1] .. dp[-count]
\* are collected in a set; an index past the start of dp raises IndexError
\* and the rule is not satisfied.
_set_alarm_status(dp, alarm) ==
    IF \E i \in 0..(alarm.count - 1) : i + 1 > Len(dp) THEN FALSE
    ELSE LET alarm_datapoints ==
                 {dp[Len(dp) - i].y : i \in 0..(alarm.count - 1)}
         IN  IF alarm.exceedance = "UNDER"
             THEN \A p \in alarm_datapoints : p < alarm.value
             ELSE IF alarm.exceedance = "OVER"
             THEN \A p \in alarm_datapoints : p > alarm.value
             ELSE FALSE

\* The inner loop of Monitor.set_alarm_status: the first rule of alarm_list
\* that is satisfied, or None.
RECURSIVE FirstActivated(_, _)
FirstActivated(dp, alarm_list) ==
    IF alarm_list = <<>> THEN None
    ELSE IF _set_alarm_status(dp, Head(alarm_list)) THEN Some(Head(alarm_list))
    ELSE FirstActivated(dp, Tail(alarm_list))

\* set_alarm_status scanning the UNDER list first.
set_alarm_status_under_first(dp, over_alarms, under_alarms) ==
    IF FirstActivated(dp, under_alarms) # None
    THEN FirstActivated(dp, under_alarms)
    ELSE FirstActivated(dp, over_alarms)

\* Monitor.set_alarm_status: the OVER list is scanned, then the UNDER list.
set_alarm_status(dp, over_alarms, under_alarms) ==
    IF FirstActivated(dp, over_alarms) # None
    THEN FirstActivated(dp, over_alarms)
    ELSE FirstActivated(dp, under_alarms)

\* monitor.MonitorStatus; values and alarms are copied by the constructor.
MonitorStatus(id, name, title, alarms, unit, values, active) ==
    [id |-> id, name |-> name, title |-> title, alarms |-> alarms,
     unit |-> unit, values |-> values, active_alarm |-> active]

\* _refresh_status run before the verdict is recomputed: the snapshot pairs
\* the new history with the verdict published before.
_refresh_status_stale_alarm(m, dp, active) ==
    MonitorStatus(m, configuration[m].name, configuration[m].title,
                  configuration[m].alarms, configuration[m].unit, dp,
                  status[m].active_alarm)

\* Monitor._refresh_status: the snapshot built from the live fields.
_refresh_status(m, dp, active) ==
    MonitorStatus(m, configuration[m].name, configuration[m].title,
                  configuration[m].alarms, configuration[m].unit, dp, active)

\* Appended with pop() in place of popleft(): the newest point is dropped.
Appended_pop_right(dp, point) ==
    LET longer == Append(dp, point)
    IN  IF Len(longer) > MAX_DATAPOINTS
        THEN SubSeq(longer, 1, MAX_DATAPOINTS) ELSE longer

\* Monitor.run, lines 75-78: the deque after the new point is appended and
\* the oldest one dropped when the cap is exceeded.
Appended(dp, point) ==
    LET longer == Append(dp, point)
    IN  IF Len(longer) > MAX_DATAPOINTS THEN Tail(longer) ELSE longer

\* The readings get_datapoint can return at the monitor's n-th sample.
Readings(m, n) == feed[m][((n - 1) % Len(feed[m])) + 1]

\* ------------------------------------------------------ MonitorCollection
\* MonitorCollectionLoop whose for loop leaves out the first monitor.
MonitorCollectionLoop_from_second ==
    /\ mc_pc = "while"
    /\ ~must_exit
    /\ budget > 0
    /\ budget' = budget - 1
    /\ mc_i' = Len(_monitors)
    /\ mc_pc' = "run"
    /\ UNCHANGED <<_monitors, configuration, feed, datapoints, active_alarm,
                   status, sampled, clock, al_pc, now, statuses,
                   _current_alarms, events>>
    /\ UNCHANGED <<threadVars, samplerVars>>

\* MonitorCollection.run: the while test passes and the for loop starts.
MonitorCollectionLoop ==
    /\ mc_pc = "while"
    /\ ~must_exit
    /\ budget > 0
    /\ budget' = budget - 1
    /\ mc_i' = 1
    /\ mc_pc' = "run"
    /\ UNCHANGED <<_monitors, configuration, feed, datapoints, active_alarm,
                   status, sampled, clock, al_pc, now, statuses,
                   _current_alarms, events>>
    /\ UNCHANGED <<threadVars, samplerVars>>

\* A MonitorStatus whose values field shares the deque it was given.
values_shared(constructed, live) == live

\* MonitorStatus.values, line 38, of a snapshot constructed at line 140
\* from a deque that held the points `constructed`, read when the deque
\* holds `live`: pydantic validates a Sequence field into a container of
\* its own, so the snapshot keeps the points it was constructed with.
values(constructed, live) == constructed

\* The snapshot `snapshot` of monitor m once the deque of m holds `live`.
Held(snapshot, m, live) ==
    IF snapshot.id = m
    THEN [snapshot EXCEPT !.values = values(@, live)]
    ELSE snapshot

\* Monitor.run, lines 75-78: sample, append, evict.  The snapshots in
\* existence, the published one and those the tracker has obtained, are
\* read through their values field afterwards.
MonitorRunAppend ==
    /\ mc_pc = "run"
    /\ LET m == _monitors[mc_i]
           n == Len(sampled[m]) + 1
       IN  \E y \in Readings(m, n) :
               /\ datapoints' =
                      [datapoints EXCEPT ![m] = Appended(@, Point(n, y))]
               /\ sampled' = [sampled EXCEPT ![m] = Append(@, Point(n, y))]
               /\ status' =
                      [status EXCEPT ![m] = Held(@, m, datapoints'[m])]
               /\ statuses' =
                      [k \in DOMAIN statuses |->
                           Held(statuses[k], m, datapoints'[m])]
    /\ mc_pc' = "set_alarm_status"
    /\ UNCHANGED <<_monitors, configuration, feed, budget, active_alarm,
                   mc_i, clock, al_pc, now, _current_alarms, events>>
    /\ UNCHANGED <<threadVars, samplerVars>>

\* Monitor.run, line 79.
MonitorSetAlarmStatus ==
    /\ mc_pc = "set_alarm_status"
    /\ LET m == _monitors[mc_i]
       IN  active_alarm' =
               [active_alarm EXCEPT ![m] =
                    set_alarm_status(datapoints[m], _over_alarms(m),
                                     _under_alarms(m))]
    /\ mc_pc' = "_refresh_status"
    /\ UNCHANGED <<_monitors, configuration, feed, budget, datapoints,
                   status, sampled, mc_i, clock, al_pc, now, statuses,
                   _current_alarms, events>>
    /\ UNCHANGED <<threadVars, samplerVars>>

\* Monitor.run, line 80, and the step of the for loop in
\* MonitorCollection.run; after the last monitor, or when must_exit is set
\* (line 159), the loop waits.
MonitorRefreshStatus ==
    /\ mc_pc = "_refresh_status"
    /\ LET m == _monitors[mc_i]
       IN  status' =
               [status EXCEPT ![m] =
                    _refresh_status(m, datapoints[m], active_alarm[m])]
    /\ IF mc_i < Len(_monitors) /\ ~must_exit
       THEN mc_i' = mc_i + 1 /\ mc_pc' = "run"
       ELSE mc_i' = mc_i /\ mc_pc' = "wait"
    /\ UNCHANGED <<_monitors, configuration, feed, budget, datapoints,
                   active_alarm, sampled, clock, al_pc, now, statuses,
                   _current_alarms, events>>
    /\ UNCHANGED <<threadVars, samplerVars>>

\* MonitorCollection.run, line 161: should_exit.wait(granularity) returns
\* because granularity seconds have passed.
MonitorCollectionWait ==
    /\ mc_pc = "wait"
    /\ mc_pc' = "while"
    /\ UNCHANGED <<_monitors, configuration, feed, budget, datapoints,
                   active_alarm, status, sampled, mc_i, clock, al_pc, now,
                   statuses, _current_alarms, events>>
    /\ UNCHANGED <<threadVars, samplerVars>>

\* The wall clock advances.
ClockTick ==
    /\ clock < MaxTime
    /\ clock' = clock + 1
    /\ UNCHANGED <<_monitors, configuration, feed, budget, datapoints,
                   active_alarm, status, sampled, mc_pc, mc_i, al_pc, now,
                   statuses, _current_alarms, events>>
    /\ UNCHANGED <<threadVars, samplerVars>>

\* ----------------------------------------------------------------- Alarmer
\* alarm.AlarmerAlarmInfo
AlarmerAlarmInfo(id, monitor, last_alert) ==
    [id |-> id, monitor |-> monitor, last_alert |-> last_alert]

\* A call of one of the notifier methods alarm_ended, alarm_started,
\* alarm_changed, alarm_reminder with its arguments as they are at the call.
Call(method, args) == [method |-> method, args |-> args]

\* dict operations on a sequence of items that carry their key in .id
Keys(d) == {d[k].id : k \in DOMAIN d}
Get(d, id) == d[CHOOSE k \in DOMAIN d : d[k].id = id]
Set(d, id, item) ==
    IF id \in Keys(d)
    THEN [k \in DOMAIN d |-> IF d[k].id = id THEN item ELSE d[k]]
    ELSE Append(d, item)
Del(d, id) ==
    LET Others(item) == item.id # id
    IN  SelectSeq(d, Others)

\* alarmed_statuses without the test of line 60: every status is taken.
RECURSIVE alarmed_statuses_all(_)
alarmed_statuses_all(sts) ==
    IF sts = <<>> THEN <<>>
    ELSE LET st == Head(sts)
         IN  <<MonitorStatus(st.id, st.name, st.title, <<>>, st.unit,
                             <<>>, st.active_alarm)>>
                 \o alarmed_statuses_all(Tail(sts))

\* Alarmer.run, lines 59-71: the statuses with an active alarm, stripped
\* of their rule list and history.
RECURSIVE alarmed_statuses(_)
alarmed_statuses(sts) ==
    IF sts = <<>> THEN <<>>
    ELSE LET st == Head(sts)
             rest == alarmed_statuses(Tail(sts))
         IN  IF st.active_alarm # None
             THEN <<MonitorStatus(st.id, st.name, st.title, <<>>, st.unit,
                                  <<>>, st.active_alarm)>> \o rest
             ELSE rest

\* to_remove taking every tracked id: each pass ends all it tracks.
to_remove_all(current, alarmed) == Keys(current)

\* Alarmer.run, lines 74-77.
to_remove(current, alarmed) ==
    {id \in Keys(current) : id \notin Keys(alarmed)}

\* EndAlarms without the del: the ended alarm stays tracked.
RECURSIVE EndAlarms_no_del(_, _)
EndAlarms_no_del(pass, order) ==
    IF order = <<>> THEN pass
    ELSE EndAlarms_no_del(
             [alarms |-> pass.alarms,
              calls |-> Append(pass.calls,
                               Call("alarm_ended",
                                    <<Get(pass.alarms, Head(order))>>))],
             Tail(order))

\* Alarmer.run, lines 79-82, for the ids of to_remove in the order the set
\* is iterated.  pass is [alarms: the tracked dict, calls: the calls made].
RECURSIVE EndAlarms(_, _)
EndAlarms(pass, order) ==
    IF order = <<>> THEN pass
    ELSE EndAlarms(
             [alarms |-> Del(pass.alarms, Head(order)),
              calls |-> Append(pass.calls,
                               Call("alarm_ended",
                                    <<Get(pass.alarms, Head(order))>>))],
             Tail(order))

\* ChangeAlarms that keeps the last_alert of the alarm it replaces.
RECURSIVE ChangeAlarms_keep_last_alert(_, _, _)
ChangeAlarms_keep_last_alert(pass, alarmed, t) ==
    IF alarmed = <<>> THEN pass
    ELSE LET monitor_status == Head(alarmed)
             id == monitor_status.id
         IN  IF id \notin Keys(pass.alarms)
             THEN ChangeAlarms_keep_last_alert(pass, Tail(alarmed), t)
             ELSE LET known_alarm == Get(pass.alarms, id)
                      new_known_alarm ==
                          AlarmerAlarmInfo(id, monitor_status,
                                           known_alarm.last_alert)
                  IN  IF monitor_status.active_alarm
                             # known_alarm.monitor.active_alarm
                      THEN ChangeAlarms_keep_last_alert(
                               [alarms |-> Set(pass.alarms, id,
                                               new_known_alarm),
                                calls |-> Append(pass.calls,
                                              Call("alarm_changed",
                                                   <<known_alarm,
                                                     new_known_alarm>>))],
                               Tail(alarmed), t)
                      ELSE ChangeAlarms_keep_last_alert(pass, Tail(alarmed),
                                                        t)

\* Alarmer.run, lines 85-95, over the items of alarmed_statuses.
RECURSIVE ChangeAlarms(_, _, _)
ChangeAlarms(pass, alarmed, t) ==
    IF alarmed = <<>> THEN pass
    ELSE LET monitor_status == Head(alarmed)
             id == monitor_status.id
         IN  IF id \notin Keys(pass.alarms)
             THEN ChangeAlarms(pass, Tail(alarmed), t)
             ELSE LET known_alarm == Get(pass.alarms, id)
                      new_known_alarm ==
                          AlarmerAlarmInfo(id, monitor_status, t)
                  IN  IF monitor_status.active_alarm
                             # known_alarm.monitor.active_alarm
                      THEN ChangeAlarms(
                               [alarms |-> Set(pass.alarms, id,
                                               new_known_alarm),
                                calls |-> Append(pass.calls,
                                              Call("alarm_changed",
                                                   <<known_alarm,
                                                     new_known_alarm>>))],
                               Tail(alarmed), t)
                      ELSE ChangeAlarms(pass, Tail(alarmed), t)

\* StartAlarms that notifies but does not record the alarm.
RECURSIVE StartAlarms_not_recorded(_, _, _)
StartAlarms_not_recorded(pass, alarmed, t) ==
    IF alarmed = <<>> THEN pass
    ELSE LET monitor_status == Head(alarmed)
             id == monitor_status.id
             known_alarm == AlarmerAlarmInfo(id, monitor_status, t)
         IN  IF id \notin Keys(pass.alarms)
             THEN StartAlarms_not_recorded(
                      [alarms |-> pass.alarms,
                       calls |-> Append(pass.calls,
                                        Call("alarm_started",
                                             <<known_alarm>>))],
                      Tail(alarmed), t)
             ELSE StartAlarms_not_recorded(pass, Tail(alarmed), t)

\* Alarmer.run, lines 98-107, over the items of alarmed_statuses.
RECURSIVE StartAlarms(_, _, _)
StartAlarms(pass, alarmed, t) ==
    IF alarmed = <<>> THEN pass
    ELSE LET monitor_status == Head(alarmed)
             id == monitor_status.id
             known_alarm == AlarmerAlarmInfo(id, monitor_status, t)
         IN  IF id \notin Keys(pass.alarms)
             THEN StartAlarms(
                      [alarms |-> Set(pass.alarms, id, known_alarm),
                       calls |-> Append(pass.calls,
                                        Call("alarm_started",
                                             <<known_alarm>>))],
                      Tail(alarmed), t)
             ELSE StartAlarms(pass, Tail(alarmed), t)

\* ReminderDue comparing with >=.
ReminderDue_nonstrict(known_alarm, t) ==
    t - known_alarm.last_alert >= known_alarm.monitor.active_alarm[1].reminder_age[1]

\* Alarmer.run, lines 118-121: the reminder is due.
ReminderDue(known_alarm, t) ==
    t - known_alarm.last_alert > known_alarm.monitor.active_alarm[1].reminder_age[1]

\* Alarmer.run, lines 110-124, from the k-th value of the tracked dict on.
RECURSIVE RemindAlarms(_, _, _)
RemindAlarms(pass, k, t) ==
    IF k > Len(pass.alarms) THEN pass
    ELSE LET known_alarm == pass.alarms[k]
         IN  IF known_alarm.monitor.active_alarm = None
             THEN RemindAlarms(pass, k + 1, t)
             ELSE IF known_alarm.monitor.active_alarm[1].reminder_age = None
             THEN RemindAlarms(pass, k + 1, t)
             ELSE IF ReminderDue(known_alarm, t)
             THEN LET reminded ==
                          [known_alarm EXCEPT !.last_alert = t]
                  IN  RemindAlarms(
                          [alarms |-> [pass.alarms EXCEPT ![k] = reminded],
                           calls |-> Append(pass.calls,
                                            Call("alarm_reminder",
                                                 <<reminded>>))],
                          k + 1, t)
             ELSE RemindAlarms(pass, k + 1, t)

\* RunPass with the phase that starts alarms ahead of the one that ends
\* them.
RunPass_start_first(current, sts, t, order) ==
    LET alarmed == alarmed_statuses(sts)
        started == StartAlarms([alarms |-> current, calls |-> <<>>],
                               alarmed, t)
        ended == EndAlarms(started, order)
        changed == ChangeAlarms(ended, alarmed, t)
    IN  RemindAlarms(changed, 1, t)

\* Alarmer.run, lines 59-124, on the statuses read, with the set to_remove
\* iterated in the given order.
RunPass(current, sts, t, order) ==
    LET alarmed == alarmed_statuses(sts)
        ended == EndAlarms([alarms |-> current, calls |-> <<>>], order)
        changed == ChangeAlarms(ended, alarmed, t)
        started == StartAlarms(changed, alarmed, t)
    IN  RemindAlarms(started, 1, t)

\* EmailAlarmer.send_email on a transport on which the steps in failing
\* raise: whether the call raises, logs an error, delivers the message.
\* smtplib.SMTP(...) connects at line 212, before the try; server.quit() is
\* called in the finally clause.
send_email(failing) ==
    IF "SMTP" \in failing
    THEN [raised |-> TRUE, logged |-> FALSE, sent |-> FALSE]
    ELSE LET caught == failing \cap {"starttls", "login", "sendmail"} # {}
         IN  [raised |-> "quit" \in failing, logged |-> caught,
              sent |-> ~caught]

\* Alarmer.run up to its first notifier call, which raises: the tracked
\* dict is as the lines before that call leave it (a reminder's last_alert
\* is set at line 122, before alarm_reminder is called; alarm_ended,
\* alarm_changed and alarm_started are called before the dict is updated).
RaisedPass(current, sts, t, order) ==
    LET first == RunPass(current, sts, t, order).calls[1]
    IN  [alarms |-> IF first.method = "alarm_reminder"
                    THEN Set(current, first.args[1].id, first.args[1])
                    ELSE current,
         calls |-> <<first>>]

\* AlarmManager.run: the while test passes and Alarmer.run begins (line 57).
AlarmManagerLoop ==
    /\ al_pc = "while"
    /\ ~must_exit
    /\ now' = Some(clock)
    /\ statuses' = <<>>
    /\ events' = <<>>
    /\ al_pc' = "get_status"
    /\ UNCHANGED <<_monitors, configuration, feed, budget, datapoints,
                   active_alarm, status, sampled, mc_pc, mc_i, clock,
                   _current_alarms>>
    /\ UNCHANGED <<threadVars, samplerVars>>

\* MonitorCollection.get_status called at line 58: the comprehension reads
\* the next monitor's published status.
AlarmerGetStatus ==
    /\ al_pc = "get_status"
    /\ statuses' = Append(statuses, status[_monitors[Len(statuses) + 1]])
    /\ al_pc' = IF Len(statuses) + 1 = Len(_monitors) THEN "run"
                ELSE "get_status"
    /\ UNCHANGED <<_monitors, configuration, feed, budget, datapoints,
                   active_alarm, status, sampled, mc_pc, mc_i, clock, now,
                   _current_alarms, events>>
    /\ UNCHANGED <<threadVars, samplerVars>>

\* Alarmer.run, lines 59-124, when no notifier call raises; its locals end
\* with the call.
AlarmerRun ==
    /\ al_pc = "run"
    /\ \E order \in Orders(to_remove(_current_alarms,
                                      alarmed_statuses(statuses))) :
           LET pass == RunPass(_current_alarms, statuses, now[1], order)
           IN  /\ ~(pass.calls # <<>> /\ send_email(faults).raised)
               /\ _current_alarms' = pass.alarms
               /\ events' = pass.calls
    /\ now' = None
    /\ statuses' = <<>>
    /\ al_pc' = "wait"
    /\ UNCHANGED <<_monitors, configuration, feed, budget, datapoints,
                   active_alarm, status, sampled, mc_pc, mc_i, clock>>
    /\ UNCHANGED <<threadVars, samplerVars>>

\* AlarmManagerWait that never ends by its timeout: the tracker sleeps on.
AlarmManagerWait_asleep ==
    /\ al_pc = "wait"
    /\ UNCHANGED vars

\* AlarmManager.run, line 237: must_exit.wait(granularity) returns because
\* granularity seconds have passed.
AlarmManagerWait ==
    /\ al_pc = "wait"
    /\ al_pc' = "while"
    /\ UNCHANGED <<_monitors, configuration, feed, budget, datapoints,
                   active_alarm, status, sampled, mc_pc, mc_i, clock, now,
                   statuses, _current_alarms, events>>
    /\ UNCHANGED <<threadVars, samplerVars>>

\* Alarmer.run, lines 59-124, when a notifier call raises: the pass stops
\* there and the exception reaches the handler of AlarmManager.run.
AlarmerRunRaises ==
    /\ al_pc = "run"
    /\ \E order \in Orders(to_remove(_current_alarms,
                                      alarmed_statuses(statuses))) :
           /\ RunPass(_current_alarms, statuses, now[1], order).calls # <<>>
           /\ send_email(faults).raised
           /\ LET pass == RaisedPass(_current_alarms, statuses, now[1], order)
              IN  /\ _current_alarms' = pass.alarms
                  /\ events' = pass.calls
    /\ now' = None
    /\ statuses' = <<>>
    /\ al_pc' = "except"
    /\ UNCHANGED <<collectionVars, clock, threadVars, samplerVars>>

\* AlarmManager.run, lines 238-242: the handler sets must_exit and returns.
AlarmManagerExcept ==
    /\ al_pc = "except"
    /\ must_exit' = TRUE
    /\ al_pc' = "return"
    /\ UNCHANGED <<now, statuses, _current_alarms, events>>
    /\ UNCHANGED <<collectionVars, clock, inputVars, web_pc, main_pc,
                   samplerVars>>

\* AlarmManager.run, line 237: must_exit.wait(granularity) returns because
\* the event is set.
AlarmManagerWake ==
    /\ al_pc = "wait"
    /\ must_exit
    /\ al_pc' = "while"
    /\ UNCHANGED <<now, statuses, _current_alarms, events>>
    /\ UNCHANGED <<collectionVars, clock, threadVars, samplerVars>>

\* AlarmManager.run, line 232: the while test fails and run returns.
AlarmManagerReturn ==
    /\ al_pc = "while"
    /\ must_exit
    /\ al_pc' = "return"
    /\ UNCHANGED <<now, statuses, _current_alarms, events>>
    /\ UNCHANGED <<collectionVars, clock, threadVars, samplerVars>>

\* Monitor.run, line 75: get_datapoint raises and the exception reaches the
\* handler of MonitorCollection.run.
MonitorRunRaises ==
    /\ mc_pc = "run"
    /\ "get_datapoint" \in faults
    /\ mc_pc' = "except"
    /\ UNCHANGED <<_monitors, configuration, feed, budget, datapoints,
                   active_alarm, status, sampled, mc_i>>
    /\ UNCHANGED <<clock, trackerVars, threadVars, samplerVars>>

\* MonitorCollection.run, lines 162-165: the handler sets should_exit and
\* returns.
MonitorCollectionExcept ==
    /\ mc_pc = "except"
    /\ must_exit' = TRUE
    /\ mc_pc' = "return"
    /\ UNCHANGED <<_monitors, configuration, feed, budget, datapoints,
                   active_alarm, status, sampled, mc_i>>
    /\ UNCHANGED <<clock, trackerVars, inputVars, web_pc, main_pc, samplerVars>>

\* should_exit.wait replaced by a sleep: the event does not end the wait.
MonitorCollectionWake_asleep ==
    /\ FALSE
    /\ UNCHANGED vars

\* MonitorCollection.run, line 161: should_exit.wait(granularity) returns
\* because the event is set.
MonitorCollectionWake ==
    /\ mc_pc = "wait"
    /\ must_exit
    /\ mc_pc' = "while"
    /\ UNCHANGED <<_monitors, configuration, feed, budget, datapoints,
                   active_alarm, status, sampled, mc_i>>
    /\ UNCHANGED <<clock, trackerVars, threadVars, samplerVars>>

\* MonitorCollection.run, line 156: the while test fails and run returns.
MonitorCollectionReturn ==
    /\ mc_pc = "while"
    /\ must_exit
    /\ mc_pc' = "return"
    /\ UNCHANGED <<_monitors, configuration, feed, budget, datapoints,
                   active_alarm, status, sampled, mc_i>>
    /\ UNCHANGED <<clock, trackerVars, threadVars, samplerVars>>

\* ------------------------------------------------------ MonitorWebUIServer
\* MonitorWebUIServer.run, line 74: the while test passes.
WebUILoop ==
    /\ web_pc = "while"
    /\ ~must_exit
    /\ web_pc' = "handle_request"
    /\ UNCHANGED <<must_exit, inputVars, main_pc>>
    /\ UNCHANGED <<collectionVars, clock, trackerVars, samplerVars>>

\* MonitorWebUIServer.run, line 76: handle_request serves a request, which
\* reads the published statuses, or times out after a second.
WebUIHandleRequest ==
    /\ web_pc = "handle_request"
    /\ web_pc' = "while"
    /\ UNCHANGED <<must_exit, inputVars, main_pc>>
    /\ UNCHANGED <<collectionVars, clock, trackerVars, samplerVars>>

\* MonitorWebUIServer.run, line 76: handle_request raises.
WebUIHandleRequestRaises ==
    /\ web_pc = "handle_request"
    /\ "handle_request" \in faults
    /\ web_pc' = "except"
    /\ UNCHANGED <<must_exit, inputVars, main_pc>>
    /\ UNCHANGED <<collectionVars, clock, trackerVars, samplerVars>>

\* The handler of MonitorWebUIServer.run without must_exit_event.set().
WebUIExcept_not_set ==
    /\ web_pc = "except"
    /\ web_pc' = "while"
    /\ UNCHANGED <<must_exit, inputVars, main_pc>>
    /\ UNCHANGED <<collectionVars, clock, trackerVars, samplerVars>>

\* MonitorWebUIServer.run, lines 77-80: the handler sets must_exit and the
\* loop goes on to its test.
WebUIExcept ==
    /\ web_pc = "except"
    /\ must_exit' = TRUE
    /\ web_pc' = "while"
    /\ UNCHANGED <<inputVars, main_pc>>
    /\ UNCHANGED <<collectionVars, clock, trackerVars, samplerVars>>

\* MonitorWebUIServer.run, lines 74 and 82: the while test fails, the
\* server is closed and run returns.
WebUIReturn ==
    /\ web_pc = "while"
    /\ must_exit
    /\ web_pc' = "return"
    /\ UNCHANGED <<must_exit, inputVars, main_pc>>
    /\ UNCHANGED <<collectionVars, clock, trackerVars, samplerVars>>

\* --------------------------------------------------------------------- main
\* monitor.MONITORS
MONITORS ==
    {"LOAD_AVERAGE", "DISK_USAGE", "DISK_WRITE_RATE", "TEMPERATURE", "UPTIME",
     "SYSTEMD", "PING", "PACKAGE_MANAGER"}

\* The ids the monitors of the configuration get, in the order of
\* configuration.monitors.
Configured == SelectSeq(<<"m1", "m2">>, LAMBDA m : m \in DOMAIN configuration)

\* get_monitors that leaves out the monitors it has no class for.
get_monitors_skipping(ms) ==
    SelectSeq(ms, LAMBDA m : configuration[m].name \in MONITORS)

\* monitor.get_monitors on the configured monitors ms: the ids of the
\* monitors of the collection, or <<"RuntimeError">> when MONITORS has no
\* class for one of them.
get_monitors(ms) ==
    IF \E k \in DOMAIN ms : configuration[ms[k]].name \notin MONITORS
    THEN <<"RuntimeError">>
    ELSE ms

\* main, lines 19-38: the monitors are constructed (Monitor.__init__), or
\* get_monitors raises and main ends with the error.
MainGetMonitors ==
    /\ main_pc = "get_monitors"
    /\ LET ms == get_monitors(Configured)
       IN  IF ms = <<"RuntimeError">>
           THEN /\ main_pc' = "RuntimeError"
                /\ UNCHANGED <<_monitors, datapoints, active_alarm, status,
                               sampled>>
           ELSE /\ main_pc' = "start"
                /\ _monitors' = ms
                /\ datapoints' = [m \in Range(ms) |-> <<>>]
                /\ active_alarm' = [m \in Range(ms) |-> None]
                /\ status' =
                       [m \in Range(ms) |->
                            MonitorStatus(m, configuration[m].name,
                                          configuration[m].title,
                                          configuration[m].alarms,
                                          configuration[m].unit, <<>>, None)]
                /\ sampled' = [m \in Range(ms) |-> <<>>]
    /\ UNCHANGED <<configuration, feed, budget, mc_pc, mc_i>>
    /\ UNCHANGED <<clock, trackerVars, must_exit, inputVars, web_pc, samplerVars>>

\* main, lines 41-42: the three threads are started.
MainStartThreads ==
    /\ main_pc = "start"
    /\ mc_pc' = "while"
    /\ web_pc' = "while"
    /\ al_pc' = "while"
    /\ main_pc' = "wait"
    /\ UNCHANGED <<_monitors, configuration, feed, budget, datapoints,
                   active_alarm, status, sampled, mc_i>>
    /\ UNCHANGED <<now, statuses, _current_alarms, events>>
    /\ UNCHANGED <<clock, must_exit, inputVars, samplerVars>>

\* exit_handler that sets the event whatever its state.
exit_handler_set_only(is_set) == [must_exit |-> TRUE, _exit |-> FALSE]

\* main.exit_handler, lines 30-35, with must_exit.is_set() as given: the
\* state of the event afterwards, and whether os._exit(1) is called.
exit_handler(is_set) == [must_exit |-> TRUE, _exit |-> is_set]

\* A SIGINT, SIGTERM or SIGHUP arrives once the handlers are installed and
\* exit_handler runs; os._exit ends every thread where it is.
ExitSignal ==
    /\ main_pc \in {"wait", "join"}
    /\ signals' = signals + 1
    /\ LET handled == exit_handler(must_exit)
       IN  /\ must_exit' = handled.must_exit
           /\ IF handled._exit
              THEN /\ main_pc' = "os._exit"
                   /\ mc_pc' = "os._exit"
                   /\ web_pc' = "os._exit"
                   /\ al_pc' = "os._exit"
              ELSE UNCHANGED <<main_pc, mc_pc, web_pc, al_pc>>
    /\ UNCHANGED <<_monitors, configuration, feed, budget, datapoints,
                   active_alarm, status, sampled, mc_i>>
    /\ UNCHANGED <<now, statuses, _current_alarms, events>>
    /\ UNCHANGED <<clock, faults, samplerVars>>

\* main, line 45: must_exit.wait() returns.
MainWait ==
    /\ main_pc = "wait"
    /\ must_exit
    /\ main_pc' = "join"
    /\ UNCHANGED <<must_exit, inputVars, web_pc>>
    /\ UNCHANGED <<collectionVars, clock, trackerVars, samplerVars>>

\* main, lines 48-51: the three threads are joined and main returns 0.
MainJoin ==
    /\ main_pc = "join"
    /\ mc_pc = "return"
    /\ web_pc = "return"
    /\ al_pc = "return"
    /\ main_pc' = "return"
    /\ UNCHANGED <<must_exit, inputVars, web_pc>>
    /\ UNCHANGED <<collectionVars, clock, trackerVars, samplerVars>>

\* ------------------------------------------------------------ ThreadManager
\* A call submitted to the pool: the target, the position of the pool
\* thread that runs it, what the probe answered (response, None so far or
\* when it gave nothing), whether it raised, the clock when it was
\* submitted and when the probe itself was over, and the number of the
\* tick that submitted it.
Work(target, pc, started, tick) ==
    [target |-> target, pc |-> pc, response |-> None, raised |-> FALSE,
     started |-> started, completed |-> started, tick |-> tick]

\* ThreadManager.submit: the call is handed to a thread of the pool, which
\* runs it from then on; the future returned is its index in the pool.
submit(work_queue, target, pc, started, tick) ==
    Append(work_queue, Work(target, pc, started, tick))

\* The calls of target in the pool that have not run to their end.
InFlight(target) ==
    {k \in DOMAIN pool : pool[k].target = target /\ pool[k].pc # "done"}

\* A start that submits whatever the handle holds.
is_pending_never(future) == FALSE

\* _start_ping, line 390, and _start_get_upgradeable, line 445: the start
\* returns at once when the handle holds a future.
is_pending(future) == future # None

\* MonitorCollection.run, line 156, and Monitor.run, line 75, for a monitor
\* with an asynchronous probe: the loop test, then the call of
\* get_datapoint.
SamplerLoop ==
    /\ get_pc = "while"
    /\ Len(returned.PING) + Len(returned.PACKAGE_MANAGER) < MaxCalls
    /\ get_pc' = IF must_exit THEN "return" ELSE "get_datapoint"
    /\ UNCHANGED <<_last_ping, _ping_future, last_upgradeable,
                   _get_upgradeable_future, delay, pool>>
    /\ UNCHANGED <<temperatureVars, service, divider,
                   warned_io_counters_unavailable, last, ticks, returned>>
    /\ UNCHANGED <<collectionVars, clock, trackerVars, threadVars>>

\* ------------------------------------------------------------- PingMonitor
\* What ping3.ping returns: the round trip in seconds, or None on a timeout.
Responses == {Some(0), Some(2), None}

\* PingMonitor.get_datapoint, line 408, on the cached _last_ping.
ping_get_datapoint(last_ping) ==
    IF last_ping = None THEN Raise("TypeError")
    ELSE Return(last_ping[1] * 1000, 1)

\* PingMonitor.get_datapoint, line 407: _start_ping returns when a future
\* is held, else calls ThreadManager.submit (the right-hand side of line
\* 392), after which _run_ping runs in the pool.
PingStartPing ==
    /\ get_pc = "get_datapoint"
    /\ configuration[_monitors[1]].name = "PING"
    /\ IF is_pending(_ping_future)
       THEN /\ get_pc' = "return"
            /\ UNCHANGED pool
       ELSE /\ get_pc' = "store"
            /\ pool' = submit(pool, "_run_ping", "ping", ticks,
                              Len(returned.PING) + 1)
    /\ UNCHANGED <<_last_ping, _ping_future, last_upgradeable,
                   _get_upgradeable_future, delay>>
    /\ UNCHANGED <<temperatureVars, service, divider,
                   warned_io_counters_unavailable, last, ticks, returned>>
    /\ UNCHANGED <<collectionVars, clock, trackerVars, threadVars>>

\* PingMonitor._start_ping, line 392: the future that submit returned is
\* stored in the handle.
PingStoreFuture ==
    /\ get_pc = "store"
    /\ configuration[_monitors[1]].name = "PING"
    /\ _ping_future' = Some(Len(pool))
    /\ get_pc' = "return"
    /\ UNCHANGED <<_last_ping, last_upgradeable, _get_upgradeable_future,
                   delay, pool>>
    /\ UNCHANGED <<temperatureVars, service, divider,
                   warned_io_counters_unavailable, last, ticks, returned>>
    /\ UNCHANGED <<collectionVars, clock, trackerVars, threadVars>>

\* PingMonitor.get_datapoint, line 408: the cached value is scaled and
\* returned; an exception goes through Monitor.run to the handler of
\* MonitorCollection.run (lines 162-165), which sets should_exit and
\* returns.
PingGetDatapoint ==
    /\ get_pc = "return"
    /\ configuration[_monitors[1]].name = "PING"
    /\ LET result == ping_get_datapoint(_last_ping)
       IN  /\ returned' = [returned EXCEPT !.PING = Append(@, result)]
           /\ IF result.raised = ""
              THEN get_pc' = "while" /\ UNCHANGED must_exit
              ELSE get_pc' = "except" /\ must_exit' = TRUE
    /\ UNCHANGED <<_last_ping, _ping_future, last_upgradeable,
                   _get_upgradeable_future, delay, pool>>
    /\ UNCHANGED <<temperatureVars, service, divider,
                   warned_io_counters_unavailable, last, ticks>>
    /\ UNCHANGED <<collectionVars, clock, trackerVars, inputVars, web_pc,
                   main_pc>>

\* PingMonitor._run_ping, lines 396-398: ping3.ping returns.
PingRunPing ==
    /\ \E k \in DOMAIN pool : \E response \in Responses :
           /\ pool[k].pc = "ping"
           /\ pool' = [pool EXCEPT ![k].pc = "assign",
                                   ![k].response = response,
                                   ![k].completed = ticks]
           /\ _last_ping' = IF response = None THEN Some(-1) ELSE _last_ping
    /\ UNCHANGED <<_ping_future, last_upgradeable, _get_upgradeable_future,
                   delay, get_pc>>
    /\ UNCHANGED <<temperatureVars, service, divider,
                   warned_io_counters_unavailable, last, ticks, returned>>
    /\ UNCHANGED <<collectionVars, clock, trackerVars, threadVars>>

\* PingMonitor._run_ping, lines 400-402: ping3.ping raises.
PingRunPingExcept ==
    /\ \E k \in DOMAIN pool :
           /\ pool[k].pc = "ping"
           /\ pool' = [pool EXCEPT ![k].pc = "finally",
                                   ![k].raised = TRUE,
                                   ![k].completed = ticks]
    /\ _last_ping' = Some(-1)
    /\ UNCHANGED <<_ping_future, last_upgradeable, _get_upgradeable_future,
                   delay, get_pc>>
    /\ UNCHANGED <<temperatureVars, service, divider,
                   warned_io_counters_unavailable, last, ticks, returned>>
    /\ UNCHANGED <<collectionVars, clock, trackerVars, threadVars>>

\* PingMonitor._run_ping, line 399.
PingAssign ==
    /\ \E k \in DOMAIN pool :
           /\ pool[k].pc = "assign"
           /\ pool' = [pool EXCEPT ![k].pc = "finally"]
           /\ _last_ping' = pool[k].response
    /\ UNCHANGED <<_ping_future, last_upgradeable, _get_upgradeable_future,
                   delay, get_pc>>
    /\ UNCHANGED <<temperatureVars, service, divider,
                   warned_io_counters_unavailable, last, ticks, returned>>
    /\ UNCHANGED <<collectionVars, clock, trackerVars, threadVars>>

\* PingMonitor._run_ping, lines 403-404.
PingFinally ==
    /\ \E k \in DOMAIN pool :
           /\ pool[k].pc = "finally"
           /\ pool[k].target = "_run_ping"
           /\ pool' = [pool EXCEPT ![k].pc = "done"]
    /\ _ping_future' = None
    /\ UNCHANGED <<_last_ping, last_upgradeable, _get_upgradeable_future,
                   delay, get_pc>>
    /\ UNCHANGED <<temperatureVars, service, divider,
                   warned_io_counters_unavailable, last, ticks, returned>>
    /\ UNCHANGED <<collectionVars, clock, trackerVars, threadVars>>

\* ---------------------------------------------------------- SystemdMonitor
\* The values of a unit's ActiveState property.
ActiveStates ==
    {"active", "reloading", "inactive", "failed", "activating",
     "deactivating"}

\* SystemdMonitor.get_datapoint on what the D-Bus calls give: an
\* ActiveState, or "DBusException" when one of them raises it.
systemd_get_datapoint(active_state) ==
    IF active_state = "DBusException" THEN Return(1, 1)
    ELSE IF active_state = "active" THEN Return(0, 1)
    ELSE IF active_state = "inactive" THEN Return(1, 1)
    ELSE IF active_state = "failed" THEN Return(2, 1)
    ELSE Raise("TypeError")

\* The service changes state, or the bus starts or stops failing.
ServiceManager ==
    /\ \E state \in (ActiveStates \cup {"DBusException"}) \ {service} :
           service' = state
    /\ UNCHANGED <<probeVars, temperatureVars, divider,
                   warned_io_counters_unavailable, last, ticks, returned>>
    /\ UNCHANGED <<collectionVars, clock, trackerVars, threadVars>>

\* SystemdMonitor.get_datapoint
SystemdGetDatapoint ==
    /\ Len(returned.SYSTEMD) < MaxCalls
    /\ returned' = [returned EXCEPT
                        !.SYSTEMD = Append(@, systemd_get_datapoint(service))]
    /\ UNCHANGED <<probeVars, temperatureVars, service, divider,
                   warned_io_counters_unavailable, last, ticks>>
    /\ UNCHANGED <<collectionVars, clock, trackerVars, threadVars>>

\* ---------------------------------------------------- DiskWriteRateMonitor
\* datetime.datetime.now() is read in units of 1/Resolution seconds.
Resolution == 2

\* The write_bytes counters psutil.disk_io_counters can show.
WriteBytes == {0, 2048, 6144}

\* DiskWriteRateMonitor.__init__, line 231
Divider(unit_base, unit_exponent) == unit_base ^ unit_exponent

\* timedelta.seconds of an interval of the given number of clock units: the
\* whole seconds of the part below one day.
Seconds(interval) == (interval \div Resolution) % 86400

\* DiskWriteRateMonitor.get_datapoint, lines 253-258.
WriteRate(prev, current_time, current_value, div) ==
    LET interval == current_time - prev[1]
        difference == current_value - prev[2]
    IN  IF Seconds(interval) = 0 THEN Raise("ZeroDivisionError")
        ELSE Return(difference, Seconds(interval) * div)

\* The clock read by DiskWriteRateMonitor advances.
DiskClockTick ==
    /\ ticks < MaxElapsed
    /\ ticks' = ticks + 1
    /\ UNCHANGED <<probeVars, temperatureVars, service, divider,
                   warned_io_counters_unavailable, last, returned>>
    /\ UNCHANGED <<collectionVars, clock, trackerVars, threadVars>>

\* DiskWriteRateMonitor.get_datapoint; counter_info is None or the
\* write_bytes of the disk.
DiskGetDatapoint ==
    /\ Len(returned.DISK_WRITE_RATE) < MaxCalls
    /\ \E counter_info \in {None} \cup {Some(c) : c \in WriteBytes} :
           IF warned_io_counters_unavailable
           THEN /\ returned' = [returned EXCEPT
                                    !.DISK_WRITE_RATE = Append(@, Return(0, 1))]
                /\ UNCHANGED <<warned_io_counters_unavailable, last>>
           ELSE IF counter_info = None
           THEN /\ warned_io_counters_unavailable' = TRUE
                /\ returned' = [returned EXCEPT
                                    !.DISK_WRITE_RATE = Append(@, Return(0, 1))]
                /\ UNCHANGED last
           ELSE IF last = None
           THEN /\ last' = Some(<<ticks, counter_info[1]>>)
                /\ returned' = [returned EXCEPT
                                    !.DISK_WRITE_RATE = Append(@, Return(0, 1))]
                /\ UNCHANGED warned_io_counters_unavailable
           ELSE /\ last' = Some(<<ticks, counter_info[1]>>)
                /\ returned' =
                       [returned EXCEPT
                            !.DISK_WRITE_RATE =
                                Append(@, WriteRate(last[1], ticks,
                                                    counter_info[1], divider))]
                /\ UNCHANGED warned_io_counters_unavailable
    /\ UNCHANGED <<probeVars, temperatureVars, service, divider, ticks>>
    /\ UNCHANGED <<collectionVars, clock, trackerVars, threadVars>>

\* --------------------------------------------------- PackageManagerMonitor
\* What _get_apt_upgradeable and _get_pacman_upgradeable count.
Upgradeable == {1, 2}

\* threading.Event.wait(timeout) begun at clock `since` can return: the
\* event is set, or the timeout, in seconds, has passed.
wait_over(is_set, since, timeout) ==
    is_set \/ ticks >= since + timeout * Resolution

\* PackageManagerMonitor.get_datapoint, line 461: _start_get_upgradeable
\* returns when a future is held, else calls ThreadManager.submit (the
\* right-hand side of lines 447-449).
PackageStartGetUpgradeable ==
    /\ get_pc = "get_datapoint"
    /\ configuration[_monitors[1]].name = "PACKAGE_MANAGER"
    /\ IF is_pending(_get_upgradeable_future)
       THEN /\ get_pc' = "return"
            /\ UNCHANGED pool
       ELSE /\ get_pc' = "store"
            /\ pool' = submit(pool, "_run_get_upgradeable", "query", ticks,
                              Len(returned.PACKAGE_MANAGER) + 1)
    /\ UNCHANGED <<_last_ping, _ping_future, last_upgradeable,
                   _get_upgradeable_future, delay>>
    /\ UNCHANGED <<temperatureVars, service, divider,
                   warned_io_counters_unavailable, last, ticks, returned>>
    /\ UNCHANGED <<collectionVars, clock, trackerVars, threadVars>>

\* PackageManagerMonitor._start_get_upgradeable, line 447: the future that
\* submit returned is stored in the handle.
PackageStoreFuture ==
    /\ get_pc = "store"
    /\ configuration[_monitors[1]].name = "PACKAGE_MANAGER"
    /\ _get_upgradeable_future' = Some(Len(pool))
    /\ get_pc' = "return"
    /\ UNCHANGED <<_last_ping, _ping_future, last_upgradeable, delay, pool>>
    /\ UNCHANGED <<temperatureVars, service, divider,
                   warned_io_counters_unavailable, last, ticks, returned>>
    /\ UNCHANGED <<collectionVars, clock, trackerVars, threadVars>>

\* PackageManagerMonitor.get_datapoint, line 462.
PackageGetDatapoint ==
    /\ get_pc = "return"
    /\ configuration[_monitors[1]].name = "PACKAGE_MANAGER"
    /\ returned' = [returned EXCEPT
                        !.PACKAGE_MANAGER =
                            Append(@, Return(last_upgradeable, 1))]
    /\ get_pc' = "while"
    /\ UNCHANGED <<_last_ping, _ping_future, last_upgradeable,
                   _get_upgradeable_future, delay, pool>>
    /\ UNCHANGED <<temperatureVars, service, divider,
                   warned_io_counters_unavailable, last, ticks>>
    /\ UNCHANGED <<collectionVars, clock, trackerVars, threadVars>>

\* PackageManagerMonitor._run_get_upgradeable, line 453: the query returns
\* its count.
PackageRunGetUpgradeable ==
    /\ \E k \in DOMAIN pool : \E count \in Upgradeable :
           /\ pool[k].pc = "query"
           /\ pool' = [pool EXCEPT ![k].pc = "wait",
                                   ![k].response = Some(count),
                                   ![k].completed = ticks]
           /\ last_upgradeable' = count
    /\ UNCHANGED <<_last_ping, _ping_future, _get_upgradeable_future, delay,
                   get_pc>>
    /\ UNCHANGED <<temperatureVars, service, divider,
                   warned_io_counters_unavailable, last, ticks, returned>>
    /\ UNCHANGED <<collectionVars, clock, trackerVars, threadVars>>

\* PackageManagerMonitor._run_get_upgradeable, lines 454-455: the query
\* raises.
PackageRunGetUpgradeableExcept ==
    /\ \E k \in DOMAIN pool :
           /\ pool[k].pc = "query"
           /\ pool' = [pool EXCEPT ![k].pc = "wait",
                                   ![k].raised = TRUE,
                                   ![k].completed = ticks]
    /\ UNCHANGED <<_last_ping, _ping_future, last_upgradeable,
                   _get_upgradeable_future, delay, get_pc>>
    /\ UNCHANGED <<temperatureVars, service, divider,
                   warned_io_counters_unavailable, last, ticks, returned>>
    /\ UNCHANGED <<collectionVars, clock, trackerVars, threadVars>>

\* PackageManagerMonitor._run_get_upgradeable, lines 456-458:
\* must_exit.wait(self.delay) returns and the handle is cleared.
PackageFinally ==
    /\ \E k \in DOMAIN pool :
           /\ pool[k].pc = "wait"
           /\ wait_over(must_exit, pool[k].completed, delay)
           /\ pool' = [pool EXCEPT ![k].pc = "done"]
    /\ _get_upgradeable_future' = None
    /\ UNCHANGED <<_last_ping, _ping_future, last_upgradeable, delay,
                   get_pc>>
    /\ UNCHANGED <<temperatureVars, service, divider,
                   warned_io_counters_unavailable, last, ticks, returned>>
    /\ UNCHANGED <<collectionVars, clock, trackerVars, threadVars>>

\* ------------------------------------------------------ TemperatureMonitor
\* What psutil.sensors_temperatures().get(self.sensor) gives: None when the
\* sensor is not there, else the current temperature of each of its
\* readings.
SensorPoints == {None, Some(<<>>), Some(<<40>>), Some(<<40, 50>>)}

\* s[i] of Python for a list s: the indices from -len(s) to len(s) - 1 are
\* there, the negative ones counting from the end.
Subscript(s, i) ==
    IF 0 <= i /\ i < Len(s) THEN Return(s[i + 1], 1)
    ELSE IF -Len(s) <= i /\ i < 0 THEN Return(s[Len(s) + i + 1], 1)
    ELSE Raise("IndexError")

\* TemperatureMonitor.get_datapoint, lines 272-292, with the flag warned,
\* on the sensor's readings and the configured index i: the outcome, the
\* flag afterwards and the number of warnings logged.
temperature_get_datapoint(warned, sensor, i) ==
    IF warned
    THEN [outcome |-> Return(0, 1), warned |-> TRUE, logged |-> 0]
    ELSE IF sensor = None
    THEN [outcome |-> Return(0, 1), warned |-> TRUE, logged |-> 1]
    ELSE IF Len(sensor[1]) <= i
    THEN [outcome |-> Return(0, 1), warned |-> TRUE, logged |-> 1]
    ELSE [outcome |-> Subscript(sensor[1], i), warned |-> FALSE,
          logged |-> 0]

\* The sensor appears, disappears or changes its readings.
Sensors ==
    /\ \E sensor \in SensorPoints \ {sensor_points} :
           sensor_points' = sensor
    /\ UNCHANGED <<warned_sensor_unavailable, index, warnings>>
    /\ UNCHANGED <<probeVars, service, divider,
                   warned_io_counters_unavailable, last, ticks, returned>>
    /\ UNCHANGED <<collectionVars, clock, trackerVars, threadVars>>

\* TemperatureMonitor.get_datapoint
TemperatureGetDatapoint ==
    /\ Len(returned.TEMPERATURE) < MaxCalls
    /\ ~must_exit
    /\ LET call == temperature_get_datapoint(warned_sensor_unavailable,
                                             sensor_points, index)
       IN  /\ returned' = [returned EXCEPT
                               !.TEMPERATURE = Append(@, call.outcome)]
           /\ warned_sensor_unavailable' = call.warned
           /\ warnings' = warnings + call.logged
           /\ must_exit' = (call.outcome.raised # "")
    /\ UNCHANGED <<sensor_points, index>>
    /\ UNCHANGED <<probeVars, service, divider,
                   warned_io_counters_unavailable, last, ticks>>
    /\ UNCHANGED <<collectionVars, clock, trackerVars, inputVars, web_pc,
                   main_pc>>

\* The samplers as their constructors leave them: the disk sampler with
\* divider div, the package sampler with the delay dly, the temperature
\* sampler with the index idx; nothing is submitted to the pool and the
\* sample loop is at its test.
ConstructedSamplers(div, dly, idx) ==
    /\ _last_ping = Some(-1)
    /\ _ping_future = None
    /\ last_upgradeable = 0
    /\ _get_upgradeable_future = None
    /\ delay = dly
    /\ pool = <<>>
    /\ get_pc = "while"
    /\ warned_sensor_unavailable = FALSE
    /\ sensor_points = Some(<<40>>)
    /\ index = idx
    /\ warnings = 0
    /\ service = "active"
    /\ divider = div
    /\ warned_io_counters_unavailable = FALSE
    /\ last = None
    /\ ticks = 0
    /\ returned = [PING |-> <<>>, SYSTEMD |-> <<>>, DISK_WRITE_RATE |-> <<>>,
                   PACKAGE_MANAGER |-> <<>>, TEMPERATURE |-> <<>>]

\* The samplers, the disk sampler with divider div.
StartSamplers(div) == ConstructedSamplers(div, 1, 0)

\* ------------------------------------------------------------ configuration
Warn == MonitorAlarmConfig("warn", 1, 80, "OVER", Some(1))
Crit == MonitorAlarmConfig("crit", 1, 81, "OVER", None)
Low == MonitorAlarmConfig("low", 1, 81, "UNDER", Some(0))

High == MonitorAlarmConfig("high", 1, 80, "OVER", None)
Sustained == MonitorAlarmConfig("sustained", 2, 80, "OVER", Some(1))

\* The rule lists a single monitor is configured with.
RuleLists ==
    { <<High>>,
      <<Sustained>>,
      <<MonitorAlarmConfig("over79", 1, 79, "OVER", None),
        MonitorAlarmConfig("over81", 1, 81, "OVER", Some(0)),
        MonitorAlarmConfig("over80", 2, 80, "OVER", None)>>,
      <<MonitorAlarmConfig("under82", 1, 82, "UNDER", None),
        High,
        MonitorAlarmConfig("under81", 2, 81, "UNDER", Some(1))>>,
      <<MonitorAlarmConfig("idle", 0, 80, "UNDER", None),
        MonitorAlarmConfig("over81", 1, 81, "OVER", None)>>,
      <<MonitorAlarmConfig("always", -1, 81, "OVER", Some(-1))>>,
      <<MonitorAlarmConfig("long", 3, 80, "OVER", None),
        MonitorAlarmConfig("short", 1, 80, "OVER", None)>> }

LoadAverage(alarms) == MonitorConfig("LOAD_AVERAGE", "Load", "load", alarms)
Uptime(alarms) == MonitorConfig("UPTIME", "Uptime", "seconds", alarms)

\* Monitor.__init__ for every monitor of ms (get_monitors), and the threads
\* of main about to enter their loops.
Constructed(ms, cfg, fd, iterations) ==
    /\ _monitors = ms
    /\ configuration = cfg
    /\ feed = fd
    /\ budget = iterations
    /\ datapoints = [m \in DOMAIN cfg |-> <<>>]
    /\ active_alarm = [m \in DOMAIN cfg |-> None]
    /\ status = [m \in DOMAIN cfg |->
                     MonitorStatus(m, cfg[m].name, cfg[m].title,
                                   cfg[m].alarms, cfg[m].unit, <<>>, None)]
    /\ sampled = [m \in DOMAIN cfg |-> <<>>]
    /\ mc_pc = "while"
    /\ mc_i = 1
    /\ clock = 0
    /\ al_pc = "while"
    /\ now = None
    /\ statuses = <<>>
    /\ _current_alarms = <<>>
    /\ events = <<>>

\* main at line 45: the three threads started, must_exit clear, nothing
\* failing.
Running ==
    /\ must_exit = FALSE
    /\ faults = {}
    /\ signals = 0
    /\ web_pc = "while"
    /\ main_pc = "wait"

\* The program with the monitors ms constructed and its threads started.
Start(ms, cfg, fd, iterations) ==
    /\ Constructed(ms, cfg, fd, iterations)
    /\ Running
    /\ StartSamplers(1)

\* Two monitors, a load monitor with two OVER rules and an uptime monitor
\* with one UNDER rule.
Init ==
    Start(<<"m1", "m2">>,
          [m \in {"m1", "m2"} |->
               IF m = "m1" THEN LoadAverage(<<Warn, Crit>>)
               ELSE Uptime(<<Low>>)],
          [m \in {"m1", "m2"} |->
               IF m = "m1" THEN <<{80, 81, 82}>> ELSE <<{80, 81}>>],
          MaxTicks)

\* One monitor with any of the rule lists, any reading at every tick.
InitRules ==
    \E alarms \in RuleLists :
        Start(<<"m1">>, [m \in {"m1"} |-> LoadAverage(alarms)],
              [m \in {"m1"} |-> <<Values>>], MaxTicks)

\* One monitor run past the cap of its history on a sawtooth of readings.
InitLongRun ==
    Start(<<"m1">>, [m \in {"m1"} |-> LoadAverage(<<Warn>>)],
          [m \in {"m1"} |-> <<{79}, {80}, {81}, {82}, {80}>>],
          MAX_DATAPOINTS + MaxOver)

Next ==
    \/ MonitorCollectionLoop
    \/ MonitorRunAppend
    \/ MonitorSetAlarmStatus
    \/ MonitorRefreshStatus
    \/ MonitorCollectionWait
    \/ ClockTick
    \/ AlarmManagerLoop
    \/ AlarmerGetStatus
    \/ AlarmerRun
    \/ AlarmManagerWait

Spec == Init /\ [][Next]_vars
SpecRules == InitRules /\ [][Next]_vars
SpecLongRun == InitLongRun /\ [][Next]_vars

\* One load monitor with two OVER rules, any of three readings at each tick.
InitFair ==
    Start(<<"m1">>, [m \in {"m1"} |-> LoadAverage(<<Warn, Crit>>)],
          [m \in {"m1"} |-> <<{80, 81, 82}>>], MaxTicks)

\* The sample loop and the tracker loop as two threads that run for ever:
\* each takes a step whenever it can, and the wait between two iterations
\* (should_exit.wait(granularity), must_exit.wait(granularity)) ends by its
\* timeout.  The clock is not obliged to advance.
SpecFair ==
    /\ InitFair
    /\ [][Next]_vars
    /\ WF_<<mc_pc, mc_i>>(\/ MonitorCollectionLoop
                           \/ MonitorRunAppend
                           \/ MonitorSetAlarmStatus
                           \/ MonitorRefreshStatus
                           \/ MonitorCollectionWait)
    /\ WF_<<al_pc, statuses>>(\/ AlarmManagerLoop
                               \/ AlarmerGetStatus
                               \/ AlarmerRun
                               \/ AlarmManagerWait)

\* ----------------------------------------------------- start-up and exit
Heartbeat(alarms) == MonitorConfig("HEARTBEAT", "Heartbeat", "", alarms)

\* The configurations main is started with: a load monitor, alone or
\* followed by a heartbeat monitor, or a heartbeat monitor alone.
MainConfigurations ==
    { [m \in {"m1"} |-> LoadAverage(<<Warn>>)],
      [m \in {"m1", "m2"} |->
           IF m = "m1" THEN LoadAverage(<<Warn>>) ELSE Heartbeat(<<>>)],
      [m \in {"m1"} |-> Heartbeat(<<Warn>>)] }

\* What fails during a run: nothing, or one of get_datapoint,
\* handle_request and the connecting, authenticating, sending and closing
\* steps of the mail transport.
FaultSets ==
    {{}} \cup {{f} : f \in {"get_datapoint", "handle_request", "SMTP",
                            "login", "sendmail", "quit"}}

\* main at line 19, before get_monitors: no monitor constructed, no thread
\* started.
InitMain ==
    \E cfg \in MainConfigurations : \E fs \in FaultSets :
        /\ configuration = cfg
        /\ feed = [m \in DOMAIN cfg |-> <<{80, 81}>>]
        /\ budget = MaxTicks
        /\ _monitors = <<>>
        /\ datapoints = <<>>
        /\ active_alarm = <<>>
        /\ status = <<>>
        /\ sampled = <<>>
        /\ mc_pc = "unstarted"
        /\ mc_i = 1
        /\ clock = 0
        /\ al_pc = "unstarted"
        /\ now = None
        /\ statuses = <<>>
        /\ _current_alarms = <<>>
        /\ events = <<>>
        /\ must_exit = FALSE
        /\ faults = fs
        /\ signals = 0
        /\ web_pc = "unstarted"
        /\ main_pc = "get_monitors"
        /\ StartSamplers(1)

\* The steps of the thread running MonitorCollection.run, but for the end
\* of a wait by the passing of time.
MonitorThread ==
    \/ MonitorCollectionLoop
    \/ MonitorRunAppend
    \/ MonitorSetAlarmStatus
    \/ MonitorRefreshStatus
    \/ MonitorCollectionWake
    \/ MonitorRunRaises
    \/ MonitorCollectionExcept
    \/ MonitorCollectionReturn

\* The steps of the thread running AlarmManager.run, but for the end of a
\* wait by the passing of time.
AlarmThread ==
    \/ AlarmManagerLoop
    \/ AlarmerGetStatus
    \/ AlarmerRun
    \/ AlarmManagerWake
    \/ AlarmerRunRaises
    \/ AlarmManagerExcept
    \/ AlarmManagerReturn

\* The steps of the thread running MonitorWebUIServer.run
WebUIThread ==
    \/ WebUILoop
    \/ WebUIHandleRequest
    \/ WebUIHandleRequestRaises
    \/ WebUIExcept
    \/ WebUIReturn

\* The steps of the main thread
MainThread ==
    \/ MainGetMonitors
    \/ MainStartThreads
    \/ MainWait
    \/ MainJoin

NextMain ==
    \/ MonitorThread
    \/ MonitorCollectionWait
    \/ AlarmThread
    \/ AlarmManagerWait
    \/ WebUIThread
    \/ MainThread
    \/ ExitSignal

\* Start-up, the three loops and their ends; the clock stands still, so no
\* reminder falls due.
SpecMain == InitMain /\ [][NextMain]_vars

\* Every started thread that can take a step eventually takes one (each
\* step of a thread changes the position named in the subscript).  Signals
\* are not obliged to happen, and neither is the passing of the time a loop
\* waits between iterations: handle_request alone ends by its timeout.
SpecMainFair ==
    /\ SpecMain
    /\ WF_<<mc_pc, mc_i>>(MonitorThread)
    /\ WF_<<al_pc, statuses>>(AlarmThread)
    /\ WF_web_pc(WebUIThread)
    /\ WF_main_pc(MainThread)

\* ----------------------------------------------------------- the samplers
Ping(alarms) == MonitorConfig("PING", "Ping", "miliseconds", alarms)
Systemd(alarms) == MonitorConfig("SYSTEMD", "Service", "status", alarms)
DiskWriteRate(alarms) ==
    MonitorConfig("DISK_WRITE_RATE", "Writes", "/second", alarms)

\* A ping monitor whose get_datapoint is called while its probes run.
InitPing ==
    Start(<<"m1">>, [m \in {"m1"} |-> Ping(<<>>)],
          [m \in {"m1"} |-> <<{0}>>], 0)

NextPing ==
    \/ SamplerLoop
    \/ PingStartPing
    \/ PingStoreFuture
    \/ PingGetDatapoint
    \/ PingRunPing
    \/ PingRunPingExcept
    \/ PingAssign
    \/ PingFinally

SpecPing == InitPing /\ [][NextPing]_vars

\* A service monitor whose get_datapoint is called while the service
\* changes state.
InitSystemd ==
    Start(<<"m1">>, [m \in {"m1"} |-> Systemd(<<>>)],
          [m \in {"m1"} |-> <<{0}>>], 0)

NextSystemd ==
    \/ ServiceManager
    \/ SystemdGetDatapoint

SpecSystemd == InitSystemd /\ [][NextSystemd]_vars

\* The unit_base and unit_exponent a disk write rate monitor is
\* configured with.
Units == {<<1000, 0>>, <<1000, 1>>, <<1024, 1>>}

\* A disk write rate monitor with any of the units, called as time passes.
InitDiskWriteRate ==
    \E unit \in Units :
        /\ Constructed(<<"m1">>, [m \in {"m1"} |-> DiskWriteRate(<<>>)],
                       [m \in {"m1"} |-> <<{0}>>], 0)
        /\ Running
        /\ StartSamplers(Divider(unit[1], unit[2]))

NextDiskWriteRate ==
    \/ DiskClockTick
    \/ DiskGetDatapoint

SpecDiskWriteRate == InitDiskWriteRate /\ [][NextDiskWriteRate]_vars

PackageManager(alarms) ==
    MonitorConfig("PACKAGE_MANAGER", "Updates", "packages", alarms)
Temperature(alarms) == MonitorConfig("TEMPERATURE", "Temperature", "C", alarms)

\* The delays, in seconds, a package monitor is configured with.
Delays == {0, 1, 2}

\* A package monitor with any of the delays, ticked by the sample loop
\* while its queries run in the pool, time passes and an exit signal may
\* arrive (a second one ends the process).
InitPackageManager ==
    \E dly \in Delays :
        /\ Constructed(<<"m1">>, [m \in {"m1"} |-> PackageManager(<<>>)],
                       [m \in {"m1"} |-> <<{0}>>], 0)
        /\ Running
        /\ ConstructedSamplers(1, dly, 0)

NextPackageManager ==
    \/ SamplerLoop
    \/ PackageStartGetUpgradeable
    \/ PackageStoreFuture
    \/ PackageGetDatapoint
    \/ PackageRunGetUpgradeable
    \/ PackageRunGetUpgradeableExcept
    \/ PackageFinally
    \/ DiskClockTick
    \/ signals = 0 /\ ExitSignal

SpecPackageManager == InitPackageManager /\ [][NextPackageManager]_vars

\* The sample loop over two monitors, with get_datapoint failing or not,
\* while exit signals may arrive.
InitSampleLoop ==
    \E fs \in {{}, {"get_datapoint"}} :
        /\ Constructed(<<"m1", "m2">>,
                       [m \in {"m1", "m2"} |->
                            IF m = "m1" THEN LoadAverage(<<Warn>>)
                            ELSE Uptime(<<Low>>)],
                       [m \in {"m1", "m2"} |-> <<{80, 81}>>], MaxTicks)
        /\ must_exit = FALSE
        /\ faults = fs
        /\ signals = 0
        /\ web_pc = "while"
        /\ main_pc = "wait"
        /\ StartSamplers(1)

NextSampleLoop ==
    \/ MonitorThread
    \/ MonitorCollectionWait
    \/ ExitSignal

SpecSampleLoop == InitSampleLoop /\ [][NextSampleLoop]_vars

\* The index a temperature monitor is configured with.
Indices == {-2, -1, 0, 1}

\* A temperature monitor with any of the indices, called while the sensor
\* comes and goes.
InitTemperature ==
    \E idx \in Indices :
        /\ Constructed(<<"m1">>, [m \in {"m1"} |-> Temperature(<<>>)],
                       [m \in {"m1"} |-> <<{0}>>], 0)
        /\ Running
        /\ ConstructedSamplers(1, 1, idx)

NextTemperature ==
    \/ Sensors
    \/ TemperatureGetDatapoint

SpecTemperature == InitTemperature /\ [][NextTemperature]_vars


\* =================================================================== claims
\* The rules of monitor m, as a set.
Rules(m) == {configuration[m].alarms[k] : k \in DOMAIN configuration[m].alarms}

\* The history h has at least rule.count datapoints and each of the last
\* rule.count of them is strictly beyond the threshold, in the rule's
\* direction.
Holds(h, rule) ==
    /\ Len(h) >= rule.count
    /\ \A k \in (Len(h) - rule.count + 1)..Len(h) :
           /\ rule.exceedance = "OVER" => h[k].y > rule.value
           /\ rule.exceedance = "UNDER" => h[k].y < rule.value

\* The y of the datapoints of h, in order.
Ys(h) == [k \in DOMAIN h |-> h[k].y]

\* C1: a rule with count N is satisfied exactly when the history has at
\* least N datapoints and each of the last N is strictly greater (OVER) or
\* strictly less (UNDER) than the threshold; a datapoint equal to the
\* threshold among the last N never satisfies the rule.  With the single
\* rule OVER 80 count 1, the published verdict is the rule exactly when the
\* last reading is above 80.
C1_SatisfiedIffLastNStrictlyBeyond ==
    \A m \in Ids :
        /\ \A rule \in Rules(m) :
               /\ _set_alarm_status(datapoints[m], rule)
                      <=> Holds(datapoints[m], rule)
               /\ (\E k \in DOMAIN datapoints[m] :
                       /\ k > Len(datapoints[m]) - rule.count
                       /\ datapoints[m][k].y = rule.value)
                      => ~_set_alarm_status(datapoints[m], rule)
        /\ (configuration[m].alarms = <<High>> /\ status[m].values # <<>>)
               => (status[m].active_alarm = Some(High)
                       <=> Last(status[m].values).y > 80)

\* C1 witness: after a completed tick a rule with count 2 is satisfied while
\* another rule of the monitor is not, the last reading being equal to its
\* threshold.
C1_Witness ==
    \E m \in Ids : \E a, b \in Rules(m) :
        /\ status[m].values = datapoints[m]
        /\ a.count = 2
        /\ _set_alarm_status(datapoints[m], a)
        /\ Last(datapoints[m]).y = b.value
        /\ ~_set_alarm_status(datapoints[m], b)

\* C2: a rule whose count exceeds the length of the history is never the
\* verdict, live or published; the rule OVER 80 count 2 fed 81 then 82 is
\* not the verdict after the first tick and is the verdict after the second.
C2_NoVerdictOnShortHistory ==
    \A m \in Ids :
        /\ active_alarm[m] # None
               => active_alarm[m][1].count <= Len(datapoints[m])
        /\ status[m].active_alarm # None
               => status[m].active_alarm[1].count <= Len(status[m].values)
        /\ configuration[m].alarms = <<Sustained>> =>
               /\ Ys(status[m].values) = <<81>>
                      => status[m].active_alarm = None
               /\ Ys(status[m].values) = <<81, 82>>
                      => status[m].active_alarm = Some(Sustained)

\* C2 witness: the rule OVER 80 count 2 is the published verdict after the
\* readings 81, 82.
C2_Witness ==
    \E m \in Ids :
        /\ configuration[m].alarms = <<Sustained>>
        /\ Ys(status[m].values) = <<81, 82>>
        /\ status[m].active_alarm = Some(Sustained)

\* The OVER rules of m that the history h satisfies.
OverHolding(m, h) == {r \in Rules(m) : r.exceedance = "OVER" /\ Holds(h, r)}
\* The UNDER rules of m that the history h satisfies.
UnderHolding(m, h) == {r \in Rules(m) : r.exceedance = "UNDER" /\ Holds(h, r)}

\* C3 as stated: for all OVER rules r1, r2 with r1.threshold > r2.threshold
\* that the history satisfies after a tick, the verdict is r1.
C3_Original ==
    \A m \in Ids : \A r1, r2 \in OverHolding(m, status[m].values) :
        (status[m].values # <<>> /\ r1.value > r2.value)
            => status[m].active_alarm = Some(r1)

\* C3 amended: when OVER rules r1, r2 with r1.threshold > r2.threshold are
\* both satisfied after a tick, the verdict is a satisfied OVER rule of the
\* highest threshold among the satisfied OVER rules (so never r2); it is r1
\* when no other satisfied OVER rule has a threshold as high as r1's.
C3_HighestSatisfiedOverWins ==
    \A m \in Ids : \A r1, r2 \in OverHolding(m, status[m].values) :
        (status[m].values # <<>> /\ r1.value > r2.value) =>
            /\ status[m].active_alarm # None
            /\ LET v == status[m].active_alarm[1]
               IN  /\ v \in OverHolding(m, status[m].values)
                   /\ \A r \in OverHolding(m, status[m].values) :
                          r.value <= v.value
                   /\ v # r2
                   /\ (\A r \in OverHolding(m, status[m].values) :
                           r.value >= r1.value => r = r1) => v = r1

\* C3 witness: two OVER rules are satisfied after a tick and the published
\* verdict is the one with the higher threshold.
C3_Witness ==
    \E m \in Ids : \E r1, r2 \in OverHolding(m, status[m].values) :
        /\ status[m].values # <<>>
        /\ r1.value > r2.value
        /\ status[m].active_alarm = Some(r1)

\* C4: after a tick, if an OVER rule is satisfied the verdict is a satisfied
\* OVER rule, also when an UNDER rule is satisfied; otherwise, if an UNDER
\* rule is satisfied, the verdict is a satisfied UNDER rule of the lowest
\* threshold; the verdict is none exactly when no rule is satisfied.
C4_UnderOnlyWhenNoOver ==
    \A m \in Ids :
        LET h == status[m].values
            verdict == status[m].active_alarm
        IN  h # <<>> =>
                /\ OverHolding(m, h) # {}
                       => verdict # None /\ verdict[1] \in OverHolding(m, h)
                /\ (OverHolding(m, h) = {} /\ UnderHolding(m, h) # {}) =>
                       /\ verdict # None
                       /\ verdict[1] \in UnderHolding(m, h)
                       /\ \A r \in UnderHolding(m, h) :
                              verdict[1].value <= r.value
                /\ verdict = None
                       <=> (OverHolding(m, h) = {} /\ UnderHolding(m, h) = {})

\* C4 witness: an OVER rule and an UNDER rule are both satisfied after a
\* tick and the published verdict is the OVER rule.
C4_Witness ==
    \E m \in Ids :
        /\ status[m].values # <<>>
        /\ OverHolding(m, status[m].values) # {}
        /\ UnderHolding(m, status[m].values) # {}
        /\ status[m].active_alarm # None
        /\ status[m].active_alarm[1].exceedance = "OVER"

\* Monitor m is between its append and the publication of its snapshot.
MidTick(m) ==
    /\ mc_pc \in {"set_alarm_status", "_refresh_status"}
    /\ _monitors[mc_i] = m

\* The number of ticks monitor m has completed.
TicksDone(m) == IF MidTick(m) THEN Len(sampled[m]) - 1 ELSE Len(sampled[m])

\* The n most recent of the first done elements of all, in order.
MostRecent(all, done, n) ==
    SubSeq(all, IF done > n THEN done - n + 1 ELSE 1, done)

\* The snapshots status() has returned and not yet dropped, and those it
\* would return now.
Returned ==
    {status[m] : m \in Ids} \cup {statuses[k] : k \in DOMAIN statuses}

\* C5: every published snapshot's history has at most MAX_DATAPOINTS
\* datapoints, and after any number of completed ticks it is exactly the
\* MAX_DATAPOINTS most recently sampled datapoints (all of them while there
\* are fewer), in sampling order.
C5_HistoryIsMostRecentCap ==
    /\ \A s \in Returned : Len(s.values) <= MAX_DATAPOINTS
    /\ \A m \in Ids :
           status[m].values
               = MostRecent(sampled[m], TicksDone(m), MAX_DATAPOINTS)

\* C5 witness: after MAX_DATAPOINTS + 2 ticks the published history holds
\* MAX_DATAPOINTS datapoints, the oldest being the third one sampled.
C5_Witness ==
    \E m \in Ids :
        /\ TicksDone(m) = MAX_DATAPOINTS + 2
        /\ Len(status[m].values) = MAX_DATAPOINTS
        /\ status[m].values[1] = sampled[m][3]
        /\ Last(status[m].values) = Last(sampled[m])

\* The verdict the alarm evaluation gives on the history of snapshot s.
Evaluated(s) ==
    set_alarm_status(s.values, _over_alarms(s.id), _under_alarms(s.id))

\* C6 as stated: every snapshot returned by status() has the verdict the
\* alarm evaluation gives on the history of the same snapshot.
C6_Original ==
    \A s \in Returned : s.active_alarm = Evaluated(s)

\* C6 amended: every snapshot returned by status() that a tick published
\* (its history is not empty) has the verdict the alarm evaluation gives on
\* the history of the same snapshot; the snapshot published at construction
\* has an empty history and no verdict, the rules not having been evaluated.
C6_SnapshotVerdictMatchesItsHistory ==
    \A s \in Returned :
        /\ s.values # <<>> => s.active_alarm = Evaluated(s)
        /\ s.values = <<>> => s.active_alarm = None

\* C6 witness: the tracker holds a snapshot with an active verdict that it
\* read before the monitor published its next snapshot, of another history.
C6_Witness ==
    \E k \in DOMAIN statuses :
        /\ statuses[k].active_alarm # None
        /\ statuses[k].values # status[statuses[k].id].values
        /\ statuses[k].active_alarm # status[statuses[k].id].active_alarm

\* --------------------------------------------------------- tracker passes
\* The step in which a tracker pass (Alarmer.run, lines 59-124) is made:
\* before it statuses, _current_alarms and now are what the pass works on,
\* after it events are the calls it made.
PassStep == al_pc = "run" /\ al_pc' = "wait"

\* The calls of method in the sequence calls whose first argument is the
\* alarm info of monitor id.
CallsOf(calls, method, id) ==
    {j \in DOMAIN calls :
         calls[j].method = method /\ calls[j].args[1].id = id}

\* The snapshots of monitor id in sts that have an active verdict.
Alarmed(sts, id) ==
    {sts[k] : k \in {j \in DOMAIN sts :
                         sts[j].id = id /\ sts[j].active_alarm # None}}

\* C7: in a tracker pass, every identity whose snapshot has a verdict and
\* that has no tracked entry gets exactly one alarm_started, carrying the
\* monitor's identity, name, title, unit and current verdict, and is tracked
\* afterwards with last_alert equal to the pass's now.
C7_NewAlarmStartedOnce ==
    [][PassStep =>
         \A id \in Ids \ Keys(_current_alarms) : \A s \in Alarmed(statuses, id) :
             /\ Cardinality(CallsOf(events', "alarm_started", id)) = 1
             /\ \A j \in CallsOf(events', "alarm_started", id) :
                    LET info == events'[j].args[1]
                    IN  /\ info.id = id
                        /\ info.monitor.id = s.id
                        /\ info.monitor.name = s.name
                        /\ info.monitor.title = s.title
                        /\ info.monitor.unit = s.unit
                        /\ info.monitor.active_alarm = s.active_alarm
             /\ id \in Keys(_current_alarms')
             /\ Get(_current_alarms', id).last_alert = now[1]
             /\ Get(_current_alarms', id).monitor.active_alarm
                    = s.active_alarm]_vars

\* C7 witness: a pass has just called alarm_started for a monitor it now
\* tracks.
C7_Witness ==
    /\ al_pc = "wait"
    /\ \E j \in DOMAIN events :
           /\ events[j].method = "alarm_started"
           /\ events[j].args[1].id \in Keys(_current_alarms)

\* C8: in a tracker pass, every tracked identity whose snapshot has no
\* verdict (or that has no snapshot) gets exactly one alarm_ended, carrying
\* the remembered entry, and is not tracked afterwards.
C8_EndedAlarmRemovedOnce ==
    [][PassStep =>
         \A id \in Keys(_current_alarms) :
             Alarmed(statuses, id) = {} =>
                 /\ Cardinality(CallsOf(events', "alarm_ended", id)) = 1
                 /\ \A j \in CallsOf(events', "alarm_ended", id) :
                        events'[j].args = <<Get(_current_alarms, id)>>
                 /\ id \notin Keys(_current_alarms')]_vars

\* C8 witness: a pass has just called alarm_ended for a monitor it no
\* longer tracks.
C8_Witness ==
    /\ al_pc = "wait"
    /\ \E j \in DOMAIN events :
           /\ events[j].method = "alarm_ended"
           /\ events[j].args[1].id \notin Keys(_current_alarms)

\* C9: in a tracker pass, every tracked identity whose current verdict is
\* not none and differs from the remembered one gets exactly one
\* alarm_changed(old, new), old the remembered entry and new holding the
\* current verdict, and afterwards its entry holds the new verdict with
\* last_alert equal to the pass's now; when the verdict equals the
\* remembered one there is no alarm_changed.
C9_ChangedAlarmReplacedOnce ==
    [][PassStep =>
         \A id \in Keys(_current_alarms) : \A s \in Alarmed(statuses, id) :
             LET old == Get(_current_alarms, id)
             IN  IF s.active_alarm # old.monitor.active_alarm
                 THEN /\ Cardinality(CallsOf(events', "alarm_changed", id)) = 1
                      /\ \A j \in CallsOf(events', "alarm_changed", id) :
                             /\ events'[j].args[1] = old
                             /\ events'[j].args[2].id = id
                             /\ events'[j].args[2].monitor.active_alarm
                                    = s.active_alarm
                             /\ events'[j].args[2].last_alert = now[1]
                      /\ id \in Keys(_current_alarms')
                      /\ Get(_current_alarms', id).monitor.active_alarm
                             = s.active_alarm
                      /\ Get(_current_alarms', id).last_alert = now[1]
                 ELSE CallsOf(events', "alarm_changed", id) = {}]_vars

\* C9 witness: a pass has just called alarm_changed with two different
\* verdicts and tracks the new one.
C9_Witness ==
    /\ al_pc = "wait"
    /\ \E j \in DOMAIN events :
           /\ events[j].method = "alarm_changed"
           /\ events[j].args[1].monitor.active_alarm
                  # events[j].args[2].monitor.active_alarm
           /\ Get(_current_alarms, events[j].args[2].id).monitor.active_alarm
                  = events[j].args[2].monitor.active_alarm

\* C10: in a tracker pass, a tracked alarm that is still active with the
\* same rule gets exactly one alarm_reminder, and its last_alert becomes the
\* pass's now, if and only if the rule has a reminder_age and
\* now - last_alert > reminder_age; otherwise it gets none and its
\* last_alert stays.  No alarm_reminder is called for a rule without a
\* reminder_age.
C10_ReminderIffIntervalExceeded ==
    [][PassStep =>
         /\ \A id \in Keys(_current_alarms) : \A s \in Alarmed(statuses, id) :
                LET old == Get(_current_alarms, id)
                    age == s.active_alarm[1].reminder_age
                    due == age # None /\ now[1] - old.last_alert > age[1]
                IN  s.active_alarm = old.monitor.active_alarm =>
                        /\ id \in Keys(_current_alarms')
                        /\ due =>
                               /\ Cardinality(CallsOf(events',
                                                      "alarm_reminder", id)) = 1
                               /\ Get(_current_alarms', id).last_alert = now[1]
                        /\ ~due =>
                               /\ CallsOf(events', "alarm_reminder", id) = {}
                               /\ Get(_current_alarms', id).last_alert
                                      = old.last_alert
         /\ \A j \in DOMAIN events' :
                events'[j].method = "alarm_reminder" =>
                    events'[j].args[1].monitor.active_alarm[1].reminder_age
                        # None]_vars

\* C10 witness: a pass has just called alarm_reminder once, and nothing
\* else, for an alarm it tracked before, passing the tracked entry with its
\* last_alert brought forward.
C10_Witness ==
    /\ al_pc = "wait"
    /\ \E id \in Keys(_current_alarms) :
           /\ Cardinality(CallsOf(events, "alarm_reminder", id)) = 1
           /\ \A j \in DOMAIN events : events[j].args[1].id = id =>
                  /\ events[j].method = "alarm_reminder"
                  /\ events[j].args = <<Get(_current_alarms, id)>>
           /\ Get(_current_alarms, id).last_alert > 0

\* ------------------------------------------------------ repeated passes
\* The results Alarmer.run can have on the tracked dict current, the
\* statuses read and the time t, one for every iteration order of to_remove.
Passes(current, t) ==
    {RunPass(current, statuses, t, order) :
         order \in Orders(to_remove(current, alarmed_statuses(statuses)))}

\* The positions of the tracked dict whose reminder interval has elapsed
\* at time t.
Elapsed(alarms, t) ==
    {k \in DOMAIN alarms :
         /\ alarms[k].monitor.active_alarm # None
         /\ alarms[k].monitor.active_alarm[1].reminder_age # None
         /\ t - alarms[k].last_alert
                > alarms[k].monitor.active_alarm[1].reminder_age[1]}

\* C11 as stated: when the tracker evaluates twice in a row against the
\* same snapshots, the tracked state after the second pass (ids, remembered
\* verdicts, last-notified times) equals the state after the first, and the
\* second pass emits no event when no reminder interval has elapsed.
C11_Original ==
    al_pc = "run" =>
        \A first \in Passes(_current_alarms, now[1]) : \A t \in now[1]..MaxTime :
            \A second \in Passes(first.alarms, t) :
                /\ second.alarms = first.alarms
                /\ Elapsed(first.alarms, t) = {} => second.calls = <<>>

\* C11: when the tracker evaluates twice in a row against the same
\* snapshots, the second pass leaves the tracked ids, their order and their
\* remembered verdicts as the first left them; it emits exactly one
\* alarm_reminder for every tracked alarm whose reminder interval has
\* elapsed at its time, whose last_alert becomes that time, and nothing
\* else; every other last_alert stays.  With no interval elapsed the state
\* is equal and no event is emitted.
C11_SecondPassOnlyReminds ==
    al_pc = "run" =>
        \A first \in Passes(_current_alarms, now[1]) : \A t \in now[1]..MaxTime :
            \A second \in Passes(first.alarms, t) :
                LET due == Elapsed(first.alarms, t)
                IN  /\ Len(second.alarms) = Len(first.alarms)
                    /\ \A k \in DOMAIN first.alarms :
                           /\ second.alarms[k].id = first.alarms[k].id
                           /\ second.alarms[k].monitor
                                  = first.alarms[k].monitor
                           /\ second.alarms[k].last_alert
                                  = IF k \in due THEN t
                                    ELSE first.alarms[k].last_alert
                    /\ Len(second.calls) = Cardinality(due)
                    /\ \A k \in due :
                           \E j \in DOMAIN second.calls :
                               second.calls[j]
                                   = Call("alarm_reminder",
                                          <<second.alarms[k]>>)
                    /\ due = {} =>
                           /\ second.alarms = first.alarms
                           /\ second.calls = <<>>

\* C11 witness: the tracker is about to evaluate snapshots whose verdicts
\* are the ones it already tracks; evaluating again at the same time would
\* emit nothing, evaluating again later would send a reminder.
C11_Witness ==
    /\ al_pc = "run"
    /\ _current_alarms # <<>>
    /\ {_current_alarms[k].monitor : k \in DOMAIN _current_alarms}
           = {alarmed_statuses(statuses)[k] :
                  k \in DOMAIN alarmed_statuses(statuses)}
    /\ \E first \in Passes(_current_alarms, now[1]) :
           /\ \E second \in Passes(first.alarms, now[1]) :
                  second.calls = <<>> /\ second.alarms = first.alarms
           /\ \E t \in now[1]..MaxTime : \E second \in Passes(first.alarms, t) :
                  second.calls # <<>> /\ second.alarms # first.alarms

\* ------------------------------------------------------ delivery failures
\* The step in which Alarmer.run, making at least one notifier call, ends
\* while a step of the mail transport fails.
FailedDelivery ==
    /\ al_pc = "run"
    /\ al_pc' # "run"
    /\ events' # <<>>
    /\ faults \cap {"SMTP", "starttls", "login", "sendmail", "quit"} # {}

\* C12: a failure while connecting to, authenticating with, sending
\* through or closing the mail transport stays inside the notifier: the
\* tracker pass that made the call completes and the tracker loop goes on
\* to its wait, and must_exit is not set by it.
C12_DeliveryFailureStaysInNotifier ==
    [][FailedDelivery => al_pc' = "wait" /\ must_exit' = must_exit]_vars

\* The part of C12 the code keeps: a failure of starttls, login or
\* sendmail is caught and logged by send_email.
C12_CaughtInsideTry ==
    [][FailedDelivery /\ faults \subseteq {"starttls", "login", "sendmail"}
           => /\ al_pc' = "wait"
              /\ must_exit' = must_exit
              /\ send_email(faults).logged]_vars

\* ------------------------------------------------------------ cancellation
\* A thread that was started has ended: its run returned, or the process
\* was ended by os._exit.
Ended(pc) == pc \in {"return", "os._exit"}

\* The step in which the handler of one of the three loops finishes with an
\* exception that escaped Monitor.run, Alarmer.run or handle_request.
Handled ==
    \/ mc_pc = "except" /\ mc_pc' # "except"
    \/ al_pc = "except" /\ al_pc' # "except"
    \/ web_pc = "except" /\ web_pc' # "except"

\* C13: an exception that escapes a monitor tick, a tracker evaluation or
\* the handling of a request is handled by setting must_exit, and once
\* must_exit is set the sample loop, the tracker loop and the status server
\* loop all eventually end.
C13_ExceptionCancelsAllLoops ==
    /\ [][Handled => must_exit']_vars
    /\ must_exit ~> (Ended(mc_pc) /\ Ended(al_pc) /\ Ended(web_pc))

\* C13 witness: get_datapoint raised in the first tick, nobody sent a
\* signal (main is still joining or has returned without os._exit), and
\* the three loops have returned.
C13_Witness ==
    /\ must_exit
    /\ mc_pc = "return"
    /\ al_pc = "return"
    /\ web_pc = "return"
    /\ faults = {"get_datapoint"}
    /\ sampled["m1"] = <<>>

\* The step in which the sample loop, the tracker loop or the status server
\* loop starts an iteration.
IterationStart ==
    \/ mc_pc = "while" /\ mc_pc' = "run"
    \/ al_pc = "while" /\ al_pc' = "get_status"
    \/ web_pc = "while" /\ web_pc' = "handle_request"

\* C14: once must_exit is set no loop starts another iteration, and, with
\* no need for the time of a wait to pass, the three loops end and main,
\* having joined them, returns (or the process is ended by os._exit).
C14_SetSignalEndsLoopsAndMain ==
    /\ [][must_exit => ~IterationStart]_vars
    /\ must_exit ~> (/\ Ended(mc_pc)
                     /\ Ended(al_pc)
                     /\ Ended(web_pc)
                     /\ Ended(main_pc))

\* C14 witness: main has returned after joining the three threads, the
\* sample loop having been stopped with iterations left to make.
C14_Witness ==
    /\ main_pc = "return"
    /\ must_exit
    /\ mc_pc = "return"
    /\ al_pc = "return"
    /\ web_pc = "return"
    /\ budget > 0
    /\ faults = {}

C16_PingNeverRaises ==
    /\ [](\A k \in DOMAIN returned.PING :
              /\ returned.PING[k].raised = ""
              /\ returned.PING[k].num \in
                     {-1000} \cup {r[1] * 1000 : r \in Responses \ {None}})
    /\ [][(/\ Len(returned.PING') > Len(returned.PING)
            /\ InFlight("_run_ping") = {}
            /\ (pool # <<>> => Last(pool).response = None))
           => Last(returned.PING') = Return(-1000, 1)]_vars

\* C17: get_datapoint of the service monitor returns 0 for an active, 1 for
\* an inactive and 2 for a failed service, 1 when the probe fails, and
\* never anything but 0, 1 or 2: no state of the service makes it raise.
C17_ServiceStateIsZeroOneTwo ==
    /\ [](\A k \in DOMAIN returned.SYSTEMD :
              /\ returned.SYSTEMD[k].raised = ""
              /\ returned.SYSTEMD[k].num \in {0, 1, 2}
              /\ returned.SYSTEMD[k].den = 1)
    /\ [][Len(returned.SYSTEMD') > Len(returned.SYSTEMD) =>
             /\ service = "active" => Last(returned.SYSTEMD') = Return(0, 1)
             /\ service = "inactive" => Last(returned.SYSTEMD') = Return(1, 1)
             /\ service = "failed" => Last(returned.SYSTEMD') = Return(2, 1)
             /\ service = "DBusException" =>
                    Last(returned.SYSTEMD') = Return(1, 1)]_vars

\* C18: get_datapoint of the disk write rate monitor returns 0 on its first
\* call with a counter; on a later call it returns (c2 - c1) divided by the
\* seconds elapsed since the previous call and by the divider, for all
\* counters c1, c2 and every elapsed time above zero; once the counters
\* were seen unavailable it returns 0 for ever.  The result num / den is
\* compared with (c2 - c1) / (elapsed / Resolution) / divider by cross
\* multiplication.
C18_WriteRateIsDifferenceOverElapsed ==
    [][Len(returned.DISK_WRITE_RATE') > Len(returned.DISK_WRITE_RATE) =>
         LET result == Last(returned.DISK_WRITE_RATE')
         IN  IF warned_io_counters_unavailable'
             THEN result = Return(0, 1)
             ELSE IF last = None
             THEN result = Return(0, 1)
             ELSE LET elapsed == last'[1][1] - last[1][1]
                      difference == last'[1][2] - last[1][2]
                  IN  elapsed > 0 =>
                          /\ result.raised = ""
                          /\ result.num * elapsed * divider
                                 = difference * Resolution * result.den]_vars

\* The part of C18 the code keeps: the first call with a counter returns
\* 0, every call after the counters were seen unavailable returns 0, and
\* after a whole number of seconds the rate is the one claimed.
C18_WholeSeconds ==
    [][Len(returned.DISK_WRITE_RATE') > Len(returned.DISK_WRITE_RATE) =>
         LET result == Last(returned.DISK_WRITE_RATE')
         IN  IF warned_io_counters_unavailable'
             THEN result = Return(0, 1)
             ELSE IF last = None
             THEN result = Return(0, 1)
             ELSE LET elapsed == last'[1][1] - last[1][1]
                      difference == last'[1][2] - last[1][2]
                  IN  elapsed > 0 /\ elapsed % Resolution = 0 =>
                          /\ result.raised = ""
                          /\ result.num * elapsed * divider
                                 = difference * Resolution * result.den]_vars


\* --------------------------------------------------------------------- C19
\* A configuration with a monitor named HEARTBEAT, for which MONITORS has
\* no class.
HasHeartbeat == \E m \in DOMAIN configuration : configuration[m].name = "HEARTBEAT"

\* C19: with a HEARTBEAT monitor in the configuration get_monitors raises
\* RuntimeError in main before a thread is started: main is at get_monitors
\* or has ended with the error, the sample, tracker and web UI threads are
\* never started, no monitor takes a sample and no notifier call is made.
C19_HeartbeatFailsBeforeLoops ==
    HasHeartbeat =>
        /\ main_pc \in {"get_monitors", "RuntimeError"}
        /\ mc_pc = "unstarted"
        /\ al_pc = "unstarted"
        /\ web_pc = "unstarted"
        /\ _monitors = <<>>
        /\ sampled = <<>>
        /\ events = <<>>

\* main has ended with the RuntimeError of get_monitors on a configuration
\* whose first monitor has a class and whose second is the HEARTBEAT one.
C19_Witness ==
    /\ main_pc = "RuntimeError"
    /\ DOMAIN configuration = {"m1", "m2"}
    /\ configuration["m1"].name \in MONITORS
    /\ configuration["m2"].name = "HEARTBEAT"

CallsAbout(calls, id) == {j \in DOMAIN calls : calls[j].args[1].id = id}

\* No rule of monitor id has a negative reminder interval.
NonNegativeReminders(id) ==
    \A k \in DOMAIN configuration[id].alarms :
        LET reminder_age == configuration[id].alarms[k].reminder_age
        IN  reminder_age # None => reminder_age[1] >= 0

\* C21: in one tracker pass a monitor whose rules have no negative reminder
\* interval is the subject of at most one notifier call, be it alarm_ended,
\* alarm_changed, alarm_started or alarm_reminder.
C21_OneEventPerIdentityPerPass ==
    [][PassStep =>
         \A id \in DOMAIN configuration :
             NonNegativeReminders(id) =>
                 Cardinality(CallsAbout(events', id)) <= 1]_vars

\* A pass has just started or changed an alarm whose rule has the reminder
\* interval 0, the shortest that is not negative.
C21_Witness ==
    /\ al_pc = "wait"
    /\ \E j \in DOMAIN events :
           /\ events[j].method \in {"alarm_started", "alarm_changed"}
           /\ LET info == events[j].args[Len(events[j].args)]
              IN  /\ NonNegativeReminders(info.id)
                  /\ info.monitor.active_alarm[1].reminder_age = Some(0)

\* --------------------------------------------------------------------- C22
\* The phase of Alarmer.run in which a notifier method is called.
Phase(method) ==
    CASE method = "alarm_ended" -> 1
      [] method = "alarm_changed" -> 2
      [] method = "alarm_started" -> 3
      [] method = "alarm_reminder" -> 4

\* C22: the notifier calls of one tracker pass are in phase order: every
\* alarm_ended comes before every alarm_changed, these before every
\* alarm_started, and these before every alarm_reminder.
C22_EventsInPhaseOrder ==
    [][PassStep =>
         \A i, j \in DOMAIN events' :
             i < j => Phase(events'[i].method) <= Phase(events'[j].method)]_vars

\* A pass over two monitors has made calls of two phases: it ended the
\* alarm of one monitor and started or changed the alarm of the other.
C22_Witness ==
    /\ al_pc = "wait"
    /\ Len(events) >= 2
    /\ events[1].method = "alarm_ended"
    /\ \E j \in DOMAIN events :
           /\ events[j].method \in {"alarm_changed", "alarm_started"}
           /\ events[j].args[1].id # events[1].args[1].id

\* ------------------------------------------------------- asynchronous probes
\* The step in which the sample loop goes through _start_ping or
\* _start_get_upgradeable.
StartStep == get_pc = "get_datapoint" /\ get_pc' # "get_datapoint"

\* C23: for the ping monitor, under every interleaving of the sample loop
\* and the pool: a start while the handle is present submits nothing; the
\* end of a probe clears the handle, the result having been stored; and
\* whenever no probe is running and the sample loop is not inside a start,
\* the handle is absent, so that the next start submits a probe.
C23_HandleAbsentWhenNoProbeRuns ==
    /\ [][StartStep /\ _ping_future # None => pool' = pool]_vars
    /\ [][\A k \in DOMAIN pool :
              pool[k].pc # "done" /\ pool'[k].pc = "done" =>
                  /\ _ping_future' = None
                  /\ _last_ping' = IF pool[k].raised THEN Some(-1)
                                   ELSE pool[k].response]_vars
    /\ [](InFlight("_run_ping") = {} /\ get_pc # "store" =>
              _ping_future = None)
    /\ [][StartStep /\ InFlight("_run_ping") = {} =>
             Len(pool') = Len(pool) + 1]_vars

\* The part of C23 the code keeps: a start with the handle present submits
\* nothing, and a probe that ends after its future was stored leaves the
\* handle absent.
C23_UnlessProbeEndsBeforeStore ==
    /\ [][StartStep /\ _ping_future # None => pool' = pool]_vars
    /\ [][\A k \in DOMAIN pool :
              pool[k].pc # "done" /\ pool'[k].pc = "done" =>
                  _ping_future' = None]_vars
    /\ [][StartStep /\ _ping_future = None => Len(pool') = Len(pool) + 1]_vars

\* --------------------------------------------------------------------- C24
\* The value the probes that have ended left behind: the round trip of the
\* last one that was answered, -1 after one that raised or got no answer,
\* and -1, as the constructor sets it, before any has ended.
RECURSIVE Cached(_, _)
Cached(work_queue, k) ==
    IF k = 0 THEN -1
    ELSE IF work_queue[k].pc # "done" THEN Cached(work_queue, k - 1)
    ELSE IF work_queue[k].raised \/ work_queue[k].response = None THEN -1
    ELSE work_queue[k].response[1]

\* C24: at most one probe of the ping monitor is in flight; a tick that
\* begins while a probe is in flight submits none, and when it returns
\* while that probe, submitted by an earlier tick, has not been answered,
\* it returns the value cached before, in milliseconds.
C24_OneProbeInFlight ==
    /\ [](Cardinality(InFlight("_run_ping")) <= 1)
    /\ [][StartStep /\ InFlight("_run_ping") # {} => pool' = pool]_vars
    /\ [][(/\ Len(returned.PING') > Len(returned.PING)
            /\ \E k \in DOMAIN pool :
                   pool[k].pc = "ping" /\ pool[k].tick <= Len(returned.PING))
           => Last(returned.PING')
                  = Return(1000 * Cached(pool, Len(pool)), 1)]_vars

\* The second tick has returned and the probe the first tick submitted is
\* still waiting for its answer.
C24_Witness ==
    /\ Len(returned.PING) >= 2
    /\ Len(pool) = 1
    /\ pool[1].pc = "ping"

\* --------------------------------------------------------------------- C25
\* The count of the last query that returned one, 0 before any did.
RECURSIVE LastCount(_, _)
LastCount(work_queue, k) ==
    IF k = 0 THEN 0
    ELSE IF work_queue[k].response = None THEN LastCount(work_queue, k - 1)
    ELSE work_queue[k].response[1]

\* Every query but the first was submitted no earlier than the delay after
\* the query before it was over.
DelayKept ==
    \A k \in DOMAIN pool :
        k + 1 \in DOMAIN pool =>
            pool[k + 1].started >= pool[k].completed + delay * Resolution

\* C25: at most one package query is in flight; a query is submitted no
\* earlier than the delay after the one before it was over; and every tick
\* returns the count of the last query that gave one, 0 before any did.
C25_QueriesKeepTheDelay ==
    /\ [](Cardinality(InFlight("_run_get_upgradeable")) <= 1)
    /\ []DelayKept
    /\ [][Len(returned.PACKAGE_MANAGER') > Len(returned.PACKAGE_MANAGER) =>
            Last(returned.PACKAGE_MANAGER')
                = Return(LastCount(pool, Len(pool)), 1)]_vars

\* The part of C25 the code keeps: the same, the delay being kept as long
\* as must_exit is not set.
C25_UnlessCancelled ==
    /\ [](Cardinality(InFlight("_run_get_upgradeable")) <= 1)
    /\ [](~must_exit => DelayKept)
    /\ [][Len(returned.PACKAGE_MANAGER') > Len(returned.PACKAGE_MANAGER) =>
            Last(returned.PACKAGE_MANAGER')
                = Return(LastCount(pool, Len(pool)), 1)]_vars

\* --------------------------------------------------------------------- C27
\* The reading the configured index names is not there: the sensor is
\* missing, or the index is outside its readings.
OutOfRange(sensor, i) ==
    \/ sensor = None
    \/ i >= Len(sensor[1])
    \/ i < -Len(sensor[1])

\* C27: once get_datapoint of the temperature monitor finds the sensor
\* missing or the index out of range, that call and every later call
\* return 0, whatever the sensor shows later; the warning is logged once;
\* and no call raises, so that the monitor keeps ticking.
C27_TemperatureLatches ==
    /\ [](\A k \in DOMAIN returned.TEMPERATURE :
              returned.TEMPERATURE[k].raised = "")
    /\ [](warnings <= 1)
    /\ [][Len(returned.TEMPERATURE') > Len(returned.TEMPERATURE) =>
            /\ OutOfRange(sensor_points, index) =>
                   /\ warned_sensor_unavailable'
                   /\ Last(returned.TEMPERATURE') = Return(0, 1)
                   /\ warnings' = 1
            /\ warned_sensor_unavailable =>
                   /\ warned_sensor_unavailable'
                   /\ Last(returned.TEMPERATURE') = Return(0, 1)
                   /\ warnings' = warnings]_vars

\* The part of C27 the code keeps: the same for an index that is not
\* negative.
C27_IndexNotNegative ==
    /\ [](index >= 0 =>
              /\ warnings <= 1
              /\ \A k \in DOMAIN returned.TEMPERATURE :
                     returned.TEMPERATURE[k].raised = "")
    /\ [][index >= 0 /\ Len(returned.TEMPERATURE') > Len(returned.TEMPERATURE) =>
            /\ OutOfRange(sensor_points, index) =>
                   /\ warned_sensor_unavailable'
                   /\ Last(returned.TEMPERATURE') = Return(0, 1)
                   /\ warnings' = 1
            /\ warned_sensor_unavailable =>
                   /\ warned_sensor_unavailable'
                   /\ Last(returned.TEMPERATURE') = Return(0, 1)
                   /\ warnings' = warnings]_vars

\* --------------------------------------------------------------------- C26
\* The number of iterations of the sample loop that have begun.
Iterations == MaxTicks - budget

\* In the middle of an iteration the monitors up to position upto of the
\* registry have been sampled once in it, the others not yet.
SampledUpTo(upto) ==
    \A k \in DOMAIN _monitors :
        Len(sampled[_monitors[k]])
            = IF k <= upto THEN Iterations ELSE Iterations - 1

\* Every tick appends one datapoint, the one sampled, to the history of the
\* monitor whose turn it is and to no other.
OneDatapointPerTick ==
    sampled' # sampled =>
        LET m == _monitors[mc_i]
        IN  /\ Len(sampled'[m]) = Len(sampled[m]) + 1
            /\ Last(datapoints'[m]) = Last(sampled'[m])
            /\ \A o \in Ids \ {m} :
                   sampled'[o] = sampled[o] /\ datapoints'[o] = datapoints[o]

BeforeReminders(order) ==
    LET alarmed == alarmed_statuses(statuses)
        ended == EndAlarms([alarms |-> _current_alarms, calls |-> <<>>],
                           order)
        changed == ChangeAlarms(ended, alarmed, now[1])
    IN  StartAlarms(changed, alarmed, now[1]).alarms

\* C28: the snapshot of every tracked entry has a verdict, between the
\* passes and when the reminder loop of a pass goes through the entries, so
\* the branch of the reminder loop for an entry without a verdict is never
\* taken.
C28_TrackedEntriesHaveVerdict ==
    /\ \A k \in DOMAIN _current_alarms :
           _current_alarms[k].monitor.active_alarm # None
    /\ al_pc = "run" =>
           \A order \in Orders(to_remove(_current_alarms,
                                         alarmed_statuses(statuses))) :
               \A k \in DOMAIN BeforeReminders(order) :
                   BeforeReminders(order)[k].monitor.active_alarm # None

\* C28 witness: a pass has gone through its reminder loop with an entry
\* tracked and has sent a reminder for it.
C28_Witness ==
    /\ al_pc = "wait"
    /\ _current_alarms # <<>>
    /\ \E j \in DOMAIN events : events[j].method = "alarm_reminder"

\* --------------------------------------------------------------------- C29
\* The y of the last n datapoints of the history h, most recent first, as a
\* list that keeps equal readings apart.
LastValues(h, n) == [i \in 1..n |-> h[Len(h) - i + 1].y]

\* The rule evaluated on the list of the last rule.count readings: not
\* satisfied when the history is shorter, otherwise satisfied when every
\* element of the list is strictly beyond the threshold.
OverList(h, rule) ==
    IF rule.count > Len(h) THEN FALSE
    ELSE LET l == LastValues(h, rule.count)
         IN  IF rule.exceedance = "UNDER"
             THEN \A k \in DOMAIN l : l[k] < rule.value
             ELSE \A k \in DOMAIN l : l[k] > rule.value

\* C29: for the history of every monitor, every count from 0 to one more
\* than its length, every threshold and both directions, the rule evaluated
\* on the set of the last count readings gives what it gives on their
\* ordered list.
C29_SetEqualsList ==
    \A m \in Ids : \A n \in 0..(Len(datapoints[m]) + 1) :
        \A v \in Values : \A e \in {"OVER", "UNDER"} :
            LET rule == MonitorAlarmConfig("rule", n, v, e, None)
            IN  _set_alarm_status(datapoints[m], rule)
                    <=> OverList(datapoints[m], rule)

\* C29 witness: a tick has evaluated a rule with count 2 on a history whose
\* last two readings are equal, so that the set has one element for two of
\* the list, and the rule is satisfied.
C29_Witness ==
    \E m \in Ids : \E rule \in Rules(m) :
        /\ status[m].values = datapoints[m]
        /\ rule.count = 2
        /\ Len(datapoints[m]) >= 2
        /\ Last(datapoints[m]).y = datapoints[m][Len(datapoints[m]) - 1].y
        /\ _set_alarm_status(datapoints[m], rule)
        /\ status[m].active_alarm = Some(rule)

\* --------------------------------------------------------------------- C30
\* C30: when a pass of the tracker ends, the tracked ids are the ids of the
\* snapshots read by the pass that have a verdict, and the verdict kept in
\* each entry is the verdict of that snapshot.
C30_TrackedMatchesSnapshotsRead ==
    [][PassStep =>
         /\ Keys(_current_alarms')
                = {statuses[k].id :
                       k \in {j \in DOMAIN statuses :
                                  statuses[j].active_alarm # None}}
         /\ \A k \in DOMAIN _current_alarms' : \A j \in DOMAIN statuses :
                statuses[j].id = _current_alarms'[k].id =>
                    _current_alarms'[k].monitor.active_alarm
                        = statuses[j].active_alarm]_vars

\* C30 witness: a pass has ended that changed the verdict of a tracked
\* entry and ended the alarm of another.
C30_Witness ==
    /\ al_pc = "wait"
    /\ Len(_current_alarms) = 1
    /\ \E j \in DOMAIN events : events[j].method = "alarm_changed"
    /\ \E j \in DOMAIN events : events[j].method = "alarm_ended"

\* --------------------------------------------------------------------- C31
\* The calls about identity id in the sequence calls, read from the k-th on
\* by the lifecycle started (changed | reminder)* ended, with tracked
\* telling whether a cycle is open: whether every call is allowed where it
\* comes, and whether a cycle is open at the end.
RECURSIVE Lifecycle(_, _, _, _)
Lifecycle(calls, k, id, tracked) ==
    IF k > Len(calls) THEN [wellformed |-> TRUE, tracked |-> tracked]
    ELSE IF calls[k].args[1].id # id
    THEN Lifecycle(calls, k + 1, id, tracked)
    ELSE IF calls[k].method = "alarm_started"
    THEN IF tracked THEN [wellformed |-> FALSE, tracked |-> tracked]
         ELSE Lifecycle(calls, k + 1, id, TRUE)
    ELSE IF ~tracked THEN [wellformed |-> FALSE, tracked |-> tracked]
    ELSE Lifecycle(calls, k + 1, id, calls[k].method # "alarm_ended")

\* A pass of Alarmer.run from start to end, whether it returns or a notifier
\* call raises.
PassOrRaiseStep == al_pc = "run" /\ al_pc' # "run"

\* C31: for every identity the calls of a pass continue a well-formed
\* lifecycle from the tracked dict: alarm_started only for an identity that
\* is not tracked, alarm_changed, alarm_reminder and alarm_ended only for
\* one that is, and after a pass that returns the identity is tracked
\* exactly when its cycle is open.  Between passes the tracked dict does not
\* change and no call is made, so over any sequence of passes the calls
\* about an identity are (started (changed | reminder)* ended)* with a
\* last cycle that may be open.
C31_WellFormedLifecycle ==
    /\ [][PassOrRaiseStep =>
            \A id \in Ids :
                LET run == Lifecycle(events', 1, id,
                                     id \in Keys(_current_alarms))
                IN  /\ run.wellformed
                    /\ PassStep =>
                           (run.tracked <=> id \in Keys(_current_alarms'))]_vars
    /\ [][~PassOrRaiseStep =>
            /\ _current_alarms' = _current_alarms
            /\ events' = events \/ events' = <<>>]_vars

\* C31 witness: a pass has ended the alarm of an identity, closing its
\* cycle, while it sent a reminder for another identity whose cycle stays
\* open.
C31_Witness ==
    /\ al_pc = "wait"
    /\ \E j, k \in DOMAIN events :
           /\ events[j].method = "alarm_ended"
           /\ events[k].method = "alarm_reminder"
           /\ events[k].args[1].id \in Keys(_current_alarms)
           /\ events[j].args[1].id \notin Keys(_current_alarms)

\* --------------------------------------------------------------------- C32
\* The tracker does not yet know the verdict that monitor m publishes: m is
\* not tracked, or is tracked with another rule.
Untold(m) ==
    /\ status[m].active_alarm # None
    /\ \/ m \notin Keys(_current_alarms)
       \/ Get(_current_alarms, m).monitor.active_alarm # status[m].active_alarm

\* The pass in progress or just ended has called method for monitor m with
\* the given verdict; alarm_changed takes the old alarm info and then the
\* new one, which carries the verdict.
Told(method, m, verdict) ==
    \E j \in DOMAIN events :
        /\ events[j].method = method
        /\ Last(events[j].args).id = m
        /\ Last(events[j].args).monitor.active_alarm = verdict

\* C32: with both loops running, a verdict that a monitor publishes and
\* that the tracker does not know leads to alarm_started (alarm_changed if
\* the monitor is tracked with another rule) for that verdict, unless the
\* published verdict changes first; and a tracked monitor that publishes no
\* verdict leads to alarm_ended for it, unless it publishes a verdict again
\* first.
C32_NotificationIsLive ==
    \A m \in {"m1"} :
        /\ \A rule \in {Warn, Crit} :
               (Untold(m) /\ status[m].active_alarm = Some(rule))
                   ~> \/ status[m].active_alarm # Some(rule)
                      \/ Told("alarm_started", m, Some(rule))
                      \/ Told("alarm_changed", m, Some(rule))
        /\ (m \in Keys(_current_alarms) /\ status[m].active_alarm = None)
               ~> \/ status[m].active_alarm # None
                  \/ \E j \in DOMAIN events :
                         /\ events[j].method = "alarm_ended"
                         /\ events[j].args[1].id = m

\* C32 witness: the sample loop has stopped with a verdict published that
\* stays for ever, the monitor was tracked with another rule, and the
\* tracker has called alarm_changed with the verdict that stays.
C32_Witness ==
    \E m \in Ids :
        /\ budget = 0
        /\ mc_pc = "while"
        /\ status[m].active_alarm # None
        /\ Told("alarm_changed", m, status[m].active_alarm)

\* --------------------------------------------------------------------- C33
\* Monitor m has evaluated its rules at least once.
EvaluatedOnce(m) ==
    \/ TicksDone(m) >= 1
    \/ mc_pc = "_refresh_status" /\ _monitors[mc_i] = m

\* C33: on every history, the empty one included, a rule with count 0 or
\* -1 is satisfied, whatever its threshold and direction; and a monitor
\* configured with an OVER rule whose count is not positive has a verdict
\* from its first evaluation on, live and in every snapshot published by a
\* tick.
C33_NonPositiveCountAlwaysSatisfied ==
    \A m \in Ids :
        /\ \A n \in {-1, 0} : \A v \in Values : \A e \in {"OVER", "UNDER"} :
               _set_alarm_status(datapoints[m],
                                 MonitorAlarmConfig("rule", n, v, e, None))
        /\ \A rule \in Rules(m) :
               (rule.count <= 0 /\ rule.exceedance = "OVER") =>
                   /\ _set_alarm_status(datapoints[m], rule)
                   /\ EvaluatedOnce(m) => active_alarm[m] # None
                   /\ TicksDone(m) >= 1 => status[m].active_alarm # None

\* C33 witness: a monitor whose OVER rule has count -1 has completed a tick
\* on a reading below the threshold of the rule, and the rule is its
\* published verdict.
C33_Witness ==
    \E m \in Ids : \E rule \in Rules(m) :
        /\ rule.count <= 0
        /\ rule.exceedance = "OVER"
        /\ TicksDone(m) >= 1
        /\ status[m].values = datapoints[m]
        /\ Last(datapoints[m]).y < rule.value
        /\ status[m].active_alarm = Some(rule)

====
